---- MODULE Spec2Model ----
(***************************************************************************)
(* Client-side document/session state machine and streaming-chat protocol *)
(* of the PDF AI Assistant frontend.                                       *)
(*                                                                         *)
(* The Session Store (frontend/lib/store.ts) and the Remote Service        *)
(* Gateway (frontend/lib/api.ts) are not among the source files; they are  *)
(* modelled from sections 4.1, 4.3 and 6 of the specification.  The        *)
(* components (ChatPanel, DocumentSidebar, FileUpload, the feature panels, *)
(* TabPanel, Home) are modelled from their source.                         *)
(*                                                                         *)
(* Texts are sequences of one-character strings, so that trim() can be     *)
(* computed.  A value of type "T | null" is a sequence of length 0 or 1.   *)
(***************************************************************************)
EXTENDS Integers, Sequences, FiniteSets, Bags, TLC

\* ------------------------------------------------------------ bounds

\* Largest length of the message sequence the model explores.
MaxMsgs == 4
\* Largest number of fragments delivered on one stream.
MaxAcc == 1
\* Largest number of chat streams in flight together.
MaxStreams == 2
\* Largest number of summary, keywords and flashcard requests in flight together.
MaxPanelReqs == 2
\* Largest number of note requests in flight together.
MaxNoteReqs == 2
\* Largest number of notes the backend comes to hold.
MaxNotes == 1
\* Largest number of suggestion requests in flight together.
MaxSugReqs == 1
\* Largest number of flashcard deletions in flight together.
MaxDeleteReqs == 2
\* Largest number of deleteDocument calls in flight together.
MaxDocDeletes == 2
\* Largest number of documents uploaded.
MaxUploads == 1

\* Requests in flight at a time, of all kinds, in the runs with every panel.
MaxInFlight == 2
\* Largest history in the runs with every panel.
MaxLimitedMsgs == 2
\* Requests in flight at a time, of all kinds, in the runs with every kind of
\* failure.
MaxFailingInFlight == 1

\* ------------------------------------------------------------ values

\* Documents the server holds when the page loads.
InitServerDocs == {"d1", "d2"}

\* Texts the user can type: empty, whitespace only, text with blanks around.
Inputs == {<<>>, <<" ">>, <<" ", "q">>}

\* Fragments a stream can deliver.
Chunks == {<<"x">>, <<" ">>}

\* The tabs of the tab panel.
Tabs == {"chat", "summary", "keywords", "flashcards", "notes"}

\* currentDocument === null
NoDoc == "none"

\* No note is in edit mode: null.
NoNote == 0

\* The size limit of an upload, in bytes.
MaxFileSize == 10 * 1024 * 1024

\* The files a user drops: name and size.
Files ==
    { [name |-> n, size |-> sz] :
        n \in { <<"a", ".", "p", "d", "f">>, <<"A", ".", "P", "D", "F">>,
                <<"a", ".", "t", "x", "t">>, <<"p", "d", "f">> },
        sz \in {MaxFileSize, MaxFileSize + 1} }

\* A file that passes the validations of onDrop.
PdfFile == [name |-> <<"a", ".", "p", "d", "f">>, size |-> MaxFileSize]

\* The ids the backend gives to uploaded documents, in order.
UploadIds == <<"u1", "u2", "u3">>

\* ------------------------------------------------------------ text

RECURSIVE TrimStart(_)
\* String.prototype.trim, leading part
TrimStart(s) ==
    IF s # <<>> /\ Head(s) = " " THEN TrimStart(Tail(s)) ELSE s

RECURSIVE TrimEnd(_)
\* String.prototype.trim, trailing part
TrimEnd(s) ==
    IF s # <<>> /\ s[Len(s)] = " " THEN TrimEnd(SubSeq(s, 1, Len(s) - 1)) ELSE s

\* String.prototype.trim
Trim(s) == TrimEnd(TrimStart(s))

\* Array.prototype.slice(0, end) for end >= 0
Slice0(seq, end) == SubSeq(seq, 1, IF end < Len(seq) THEN end ELSE Len(seq))

\* A sequence without its i-th element.
RemoveAt(seq, i) == SubSeq(seq, 1, i - 1) \o SubSeq(seq, i + 1, Len(seq))

UserMessage(content) == [role |-> "user", content |-> content]

AssistantMessage(content) == [role |-> "assistant", content |-> content]

\* ------------------------------------------------------------ Session Store

\* The store's state when the application starts.
InitialStore ==
    [ documents           |-> {},
      currentDocument     |-> NoDoc,
      messages            |-> <<>>,
      summary             |-> <<>>,
      keywords            |-> <<>>,
      flashcards          |-> <<>>,
      notes               |-> <<>>,
      isLoadingChat       |-> FALSE,
      isLoadingSummary    |-> FALSE,
      isLoadingKeywords   |-> FALSE,
      isLoadingFlashcards |-> FALSE,
      isUploading         |-> FALSE ]

setDocuments(s, docs) == [s EXCEPT !.documents = docs]

addDocument(s, doc) == [s EXCEPT !.documents = @ \cup {doc}]

\* Removal also evicts the document if it was active.
removeDocument(s, id) ==
    [s EXCEPT !.documents = @ \ {id},
              !.currentDocument = IF @ = id THEN NoDoc ELSE @]

\* Does not itself clear derived state.
setCurrentDocument(s, doc) == [s EXCEPT !.currentDocument = doc]

\* A faulty reset: the notes are kept.
resetDocumentStateKeepsNotes(s) ==
    [s EXCEPT !.messages = <<>>,
              !.summary = <<>>,
              !.keywords = <<>>,
              !.flashcards = <<>>,
              !.isLoadingChat = FALSE,
              !.isLoadingSummary = FALSE,
              !.isLoadingKeywords = FALSE,
              !.isLoadingFlashcards = FALSE,
              !.isUploading = FALSE]

\* Clears messages, summary, keywords, flashcards, notes and all loading flags.
resetDocumentState(s) ==
    [s EXCEPT !.messages = <<>>,
              !.summary = <<>>,
              !.keywords = <<>>,
              !.flashcards = <<>>,
              !.notes = <<>>,
              !.isLoadingChat = FALSE,
              !.isLoadingSummary = FALSE,
              !.isLoadingKeywords = FALSE,
              !.isLoadingFlashcards = FALSE,
              !.isUploading = FALSE]

addMessage(s, m) == [s EXCEPT !.messages = Append(@, m)]

setIsLoadingChat(s, b) == [s EXCEPT !.isLoadingChat = b]

\* ------------------------------------------------------------ state

VARIABLES
    store,                  \* the Session Store (useStore)
    activeTab,              \* Home: useState('chat')
    shown,                  \* TabPanel: the key of the motion.div on screen, whose panel is mounted
    input,                  \* ChatPanel: useState('')
    streamingContent,       \* ChatPanel: useState('')
    suggestions,            \* ChatPanel: useState([])
    lastUserMessageIndex,   \* ChatPanel: useState(null), <<>> is null
    isLoadingSuggestions,   \* ChatPanel: useState(false)
    currentIndex,           \* FlashcardsPanel: useState(0)
    isFlipped,              \* FlashcardsPanel: useState(false)
    deleteReqs,             \* FlashcardsPanel: the deleteFlashcard requests in flight, a bag
    isCreating,             \* NotesPanel: useState(false)
    newContent,             \* NotesPanel: useState('')
    isEditing,              \* NotesPanel: useState(null), the id of the note in edit mode
    editContent,            \* NotesPanel: useState('')
    closingForm,            \* NotesPanel: the note form while its exit runs, as rendered last; <<>> if there is none
    fadingNotes,            \* NotesPanel: the note cards whose exit runs, as rendered last
    streams,                \* the chat streams in flight, a bag
    settled,                \* the stream that settled last: how it ended and what it had accumulated
    submits,                \* the parity of the number of calls of handleSubmit
    sugReqs,                \* the suggestion requests in flight, a bag
    panelReqs,              \* summary, keywords and flashcard requests in flight, a bag
    noted,                  \* the last step of interest in the runs that keep a record; what = "off": no record kept
    noteReqs,               \* note requests in flight, a bag
    serverNotes,            \* the notes the backend holds
    uploads,                \* the number of upload requests in flight
    uploaded,               \* the number of documents uploaded so far
    serverDocs,             \* the documents the backend holds
    docsFetch,              \* the sidebar's document-list request
    docDeletes,             \* the deleteDocument calls in flight, a bag of documents
    fadingRows,             \* DocumentSidebar: the rows whose exit runs, as rendered last
    drops                   \* the parity of the number of calls of onDrop, the file of the last one, and in recording runs what the store held before the last accepted one

chatLocals ==
    <<input, streamingContent, suggestions, lastUserMessageIndex,
      isLoadingSuggestions>>

\* FlashcardsPanel: its component state and the requests of its handleDelete.
flashLocals == <<currentIndex, isFlipped, deleteReqs>>

noteLocals == <<isCreating, newContent, isEditing, editContent, closingForm>>

\* The edit form of NotesPanel.
editLocals == <<isEditing, editContent>>

chatNet == <<streams, settled, submits, sugReqs>>

panelNet == <<panelReqs, noted>>

noteNet == <<noteReqs, serverNotes>>

docNet ==
    <<uploads, uploaded, serverDocs, docsFetch, drops, docDeletes, fadingRows>>

vars ==
    <<store, activeTab, shown, chatLocals, flashLocals, noteLocals, fadingNotes,
      chatNet, panelNet, noteNet, docNet>>

\* What is not the chat panel's.
nonChat == <<flashLocals, noteLocals, fadingNotes, panelNet, noteNet, docNet>>

\* The same without the record of the run.
nonChatButNoted ==
    <<flashLocals, noteLocals, fadingNotes, panelReqs, noteNet, docNet>>

\* The local state and the requests of the panels other than the chat panel.
nonChatPanels == <<flashLocals, noteLocals, fadingNotes, panelNet, noteNet>>

\* Home renders TabPanel only while a document is active, and TabPanel renders
\* one panel: the one of the motion.div on screen, whose key is tab.
Mounted(s, tab, panel) == s.currentDocument # NoDoc /\ tab = panel

ChatMounted(s, tab) == Mounted(s, tab, "chat")

\* The state after construction, but for the record of the run.
InitButNoted ==
    /\ store = InitialStore
    /\ activeTab = "chat"
    /\ shown = "chat"
    /\ input = <<>>
    /\ streamingContent = <<>>
    /\ suggestions = <<>>
    /\ lastUserMessageIndex = <<>>
    /\ currentIndex = 0
    /\ isFlipped = FALSE
    /\ deleteReqs = EmptyBag
    /\ isCreating = FALSE
    /\ newContent = <<>>
    /\ isEditing = NoNote
    /\ editContent = <<>>
    /\ closingForm = <<>>
    /\ fadingNotes = {}
    /\ streams = EmptyBag
    /\ settled = [how |-> "none", acc |-> <<>>]
    /\ panelReqs = EmptyBag
    /\ noteReqs = EmptyBag
    /\ serverNotes = {}
    /\ uploads = 0
    /\ uploaded = 0
    /\ serverDocs = InitServerDocs
    /\ docsFetch = [state |-> "pending", snapshot |-> InitServerDocs]
    /\ docDeletes = EmptyBag
    /\ fadingRows = {}
    /\ submits = 0
    /\ isLoadingSuggestions = FALSE
    /\ sugReqs = EmptyBag
    /\ drops = [n |-> 0, file |-> [name |-> <<>>, size |-> 0], before |-> <<>>]

\* A record of the run: what happened in the step of interest, and of what.
Note(what, of) == [what |-> what, of |-> of]

\* No record is kept.
Off == Note("off", "none")

\* What the step notes in the runs that keep a record.
Noting(what, of) == noted' = IF noted = Off THEN Off ELSE Note(what, of)

\* The user has acted: what failed before is no longer the last thing noted.
Acted == Noting("none", "none")

\* The runs that keep no record.
Init == InitButNoted /\ noted = Off

\* The runs that record, for each panel request, the stored value at the time
\* of the call and, for the request that failed last, its kind.
InitRecording == InitButNoted /\ noted = Note("none", "none")

\* ------------------------------------------------------------ renders

\* A request or stream whose panel instance has been unmounted keeps running,
\* but its setState calls no longer reach a mounted component.
Orphan(r) == [r EXCEPT !.live = FALSE]

RECURSIVE OrphanedFrom(_, _)
OrphanedFrom(bag, todo) ==
    IF todo = {} THEN EmptyBag
    ELSE LET r == CHOOSE x \in todo : TRUE IN
         [e \in {Orphan(r)} |-> bag[r]] (+) OrphanedFrom(bag, todo \ {r})

Orphaned(bag) == OrphanedFrom(bag, BagToSet(bag))

RECURSIVE SortedById(_)
\* The notes of a set as a list, in the order of their ids.
SortedById(notes) ==
    IF notes = {} THEN <<>>
    ELSE LET first == CHOOSE n \in notes : \A m \in notes : n.id <= m.id IN
         <<first>> \o SortedById(notes \ {first})

\* What the backend answers to getNotes(doc).
NotesOf(doc) == SortedById({n \in serverNotes : n.doc = doc})

\* The request the effect of NotesPanel issues for doc.
NotesFetch(doc) == [kind |-> "fetch", doc |-> doc, snapshot |-> NotesOf(doc),
                    live |-> TRUE, note |-> NoNote, content |-> <<>>]

\* The effect of ChatPanel on messages.length and fetchSuggestions, and the
\* guards of fetchSuggestions: the last message is an assistant message, there
\* are at least two messages and there is an active document.
WantsSuggestions(s) ==
    /\ s.currentDocument # NoDoc
    /\ Len(s.messages) >= 2
    /\ s.messages[Len(s.messages)].role = "assistant"

\* The request fetchSuggestions issues.
SuggestionsRequest(s) ==
    [doc |-> s.currentDocument, hist |-> s.messages, live |-> TRUE]

\* The fetch effect of the ChatPanel that is mounted after the step, run
\* because the panel was mounted in the step or was re-rendered with other
\* messages or another document; wasMounted: it is the instance that was
\* mounted before the step.  The requests of an unmounted instance stay in
\* flight; all their continuations do is set the state of that instance.
SuggestionsEffect(wasMounted) ==
    LET kept == IF wasMounted THEN sugReqs ELSE Orphaned(sugReqs)
        loading == IF wasMounted THEN isLoadingSuggestions ELSE FALSE
    IN  IF ChatMounted(store', shown') /\ WantsSuggestions(store')
        THEN /\ BagCardinality(kept) < MaxSugReqs
             /\ sugReqs' = kept (+) SetToBag({SuggestionsRequest(store')})
             /\ isLoadingSuggestions' = TRUE
        ELSE /\ sugReqs' = kept
             /\ isLoadingSuggestions' = loading

\* The chat panel is unmounted: its local state is lost; if the step mounts
\* a chat panel, that one starts with initial local state and runs its
\* effects.
ChatUnmounts ==
    /\ input' = <<>>
    /\ streamingContent' = <<>>
    /\ suggestions' = <<>>
    /\ lastUserMessageIndex' = <<>>
    /\ streams' = Orphaned(streams)
    /\ SuggestionsEffect(FALSE)

\* The flashcards panel is unmounted or was not mounted.
FlashcardsUnmounted ==
    /\ currentIndex' = 0
    /\ isFlipped' = FALSE
    /\ deleteReqs' = Orphaned(deleteReqs)

\* The notes panel is unmounted or was not mounted.
NotesUnmounted ==
    /\ isCreating' = FALSE
    /\ newContent' = <<>>
    /\ isEditing' = NoNote
    /\ editContent' = <<>>
    /\ closingForm' = <<>>
    /\ fadingNotes' = {}

\* The notes of a store as a set, and their ids: the keys of the note cards.
NotesIn(s) == {s.notes[i] : i \in DOMAIN s.notes}

NoteIds(s) == {note.id : note \in NotesIn(s)}

\* A note card as NotesPanel rendered it last: the note, whether it was in
\* edit mode, and then the editContent its handleUpdateNote closed over.
NoteCard(note) ==
    [note |-> note, editing |-> isEditing = note.id,
     editContent |-> IF isEditing = note.id THEN editContent ELSE <<>>]

\* The note cards inside <AnimatePresence> (part_000 500-568) after a step
\* of a NotesPanel that stays mounted: a card whose note has left
\* store.notes is kept, as the element of its last render, until its exit
\* has ended, and a card whose id is back in store.notes is present again.
\* Ids are reused after a deletion, so the card of a new note with the id of
\* a fading one is taken for the same card.
NoteCards ==
    fadingNotes' =
        IF Mounted(store, shown, "notes") /\ Mounted(store', shown', "notes")
        THEN {card \in fadingNotes : card.note.id \notin NoteIds(store')}
                \cup {NoteCard(note) : note \in
                         {n \in NotesIn(store) : n.id \notin NoteIds(store')}}
        ELSE {}

\* The renders after the store's active document has changed in this step.
\* Home's effect on currentDocument.id sets the chat tab.  With no active
\* document TabPanel is not rendered, so every panel is unmounted at once,
\* and the first document mounts TabPanel with the chat panel.  From one
\* document to another the panel on screen stays mounted: AnimatePresence
\* keeps it until its exit has ended.  It is re-rendered with the other
\* document, so a NotesPanel runs its effect on currentDocument (a fetch for
\* the new document) and a ChatPanel its effect on currentDocument.id, which
\* clears the suggestions, and its fetch effect.
RenderAfterDocumentChange ==
    /\ activeTab' = "chat"
    /\ IF store.currentDocument = NoDoc \/ store'.currentDocument = NoDoc
       THEN /\ shown' = "chat"
            /\ ChatUnmounts
            /\ FlashcardsUnmounted
            /\ NotesUnmounted
            /\ noteReqs' = Orphaned(noteReqs)
       ELSE /\ shown' = shown
            /\ UNCHANGED <<flashLocals, noteLocals>>
            /\ NoteCards
            /\ IF shown = "notes"
               THEN /\ BagCardinality(noteReqs) < MaxNoteReqs
                    /\ noteReqs' = noteReqs
                          (+) SetToBag({NotesFetch(store'.currentDocument)})
               ELSE noteReqs' = noteReqs
            /\ IF shown = "chat"
               THEN /\ suggestions' = <<>>
                    /\ SuggestionsEffect(TRUE)
                    /\ UNCHANGED <<input, streamingContent,
                                   lastUserMessageIndex, streams>>
               ELSE UNCHANGED <<chatLocals, streams, sugReqs>>

\* The renders after a step of the store: nothing is mounted or unmounted
\* unless the active document changed.
Render ==
    IF store'.currentDocument # store.currentDocument
    THEN RenderAfterDocumentChange
    ELSE /\ UNCHANGED <<activeTab, shown, chatLocals, flashLocals, noteLocals,
                       streams, sugReqs, noteReqs>>
         /\ NoteCards

\* ------------------------------------------------------------ DocumentSidebar

\* A row as DocumentSidebar rendered it last: its document and the
\* currentDocument its handleSelectDocument closed over.
Row(doc, current) == [doc |-> doc, currentDocument |-> current]

\* The rows inside <AnimatePresence> (DocumentSidebar.tsx 72-147) after a
\* step: a row whose document has left store.documents is kept, as the
\* element of its last render, until its exit has ended, and a row whose
\* document is back in store.documents is present again.
DocumentRows ==
    fadingRows' =
        {row \in fadingRows : row.doc \notin store'.documents}
            \cup {Row(doc, store.currentDocument) :
                     doc \in store.documents \ store'.documents}

\* The exit of a row has ended: the row is gone.
RowExitComplete(row) ==
    /\ row \in fadingRows
    /\ fadingRows' = fadingRows \ {row}
    /\ UNCHANGED <<store, activeTab, shown, chatLocals, chatNet, nonChatPanels,
                   uploads, uploaded, serverDocs, docsFetch, drops, docDeletes>>

\* fetchDocuments, success: the list is the server's at the time of the request
\* or at the time of the response.
FetchDocumentsOk ==
    /\ docsFetch.state = "pending"
    /\ \E docs \in {docsFetch.snapshot, serverDocs} :
          store' = setDocuments(store, docs)
    /\ docsFetch' = [docsFetch EXCEPT !.state = "done"]
    /\ DocumentRows
    /\ UNCHANGED <<activeTab, shown, chatLocals, chatNet, nonChatPanels, uploads,
                   uploaded, serverDocs, drops, docDeletes>>

\* fetchDocuments, failure: logged only.
FetchDocumentsFail ==
    /\ docsFetch.state = "pending"
    /\ docsFetch' = [docsFetch EXCEPT !.state = "failed"]
    /\ UNCHANGED <<store, activeTab, shown, chatLocals, chatNet, nonChatPanels,
                   uploads, uploaded, serverDocs, drops, docDeletes, fadingRows>>

\* The rows of doc that can be clicked: the present one, rendered with the
\* store's currentDocument, and the ones whose exit runs.
RowsOf(doc) ==
    {row \in fadingRows : row.doc = doc}
        \cup (IF doc \in store.documents
              THEN {Row(doc, store.currentDocument)}
              ELSE {})

\* The store after handleSelectDocument(doc) of a render in which the
\* active document was current.
SelectedStore(s, current, doc) ==
    IF current # doc
    THEN setCurrentDocument(resetDocumentState(s), doc)
    ELSE s

\* handleSelectDocument: a click on a row of doc.
HandleSelectDocument(doc) ==
    /\ \E row \in RowsOf(doc) :
          store' = SelectedStore(store, row.currentDocument, doc)
    /\ Render
    /\ Acted
    /\ UNCHANGED <<settled, submits, panelReqs, serverNotes, docNet>>

\* handleDeleteDocument up to the await: a click on the bin of a row of doc;
\* the click does not select the row.
HandleDeleteDocument(doc) ==
    /\ RowsOf(doc) # {}
    /\ BagCardinality(docDeletes) < MaxDocDeletes
    /\ docDeletes' = docDeletes (+) SetToBag({doc})
    /\ UNCHANGED <<store, activeTab, shown, chatLocals, chatNet, nonChatPanels,
                   uploads, uploaded, serverDocs, docsFetch, drops, fadingRows>>

\* deleteDocument resolves: the backend has deleted the document with its
\* notes; removeDocument, which also evicts the document if it is active.
DeleteDocumentOk(doc) ==
    /\ BagIn(doc, docDeletes)
    /\ docDeletes' = docDeletes (-) SetToBag({doc})
    /\ serverDocs' = serverDocs \ {doc}
    /\ serverNotes' = {n \in serverNotes : n.doc # doc}
    /\ store' = removeDocument(store, doc)
    /\ Render
    /\ DocumentRows
    /\ UNCHANGED <<settled, submits, panelNet, uploads, uploaded, docsFetch,
                   drops>>

\* deleteDocument fails: a toast only.
DeleteDocumentFail(doc) ==
    /\ BagIn(doc, docDeletes)
    /\ docDeletes' = docDeletes (-) SetToBag({doc})
    /\ UNCHANGED <<store, activeTab, shown, chatLocals, chatNet, nonChatPanels,
                   uploads, uploaded, serverDocs, docsFetch, drops, fadingRows>>

\* ------------------------------------------------------------ TabPanel

\* onTabChange: setActiveTab.  The panel on screen stays mounted until its
\* exit has ended.
OnTabChange(tab) ==
    /\ store.currentDocument # NoDoc
    /\ tab \in Tabs
    /\ activeTab' = tab
    /\ Acted
    /\ UNCHANGED <<store, shown, fadingNotes, chatLocals, chatNet, flashLocals, noteLocals,
                   panelReqs, noteNet, docNet>>

\* The exit of the motion.div on screen has ended (AnimatePresence with
\* mode="wait"): its panel is unmounted, its local state is lost, and the
\* panel of the active tab is mounted with initial local state and runs its
\* effects; a NotesPanel fetches the notes.
ExitComplete ==
    /\ store.currentDocument # NoDoc
    /\ shown # activeTab
    /\ activeTab = "notes" => BagCardinality(noteReqs) < MaxNoteReqs
    /\ shown' = activeTab
    /\ UNCHANGED <<store, activeTab, settled, submits, panelNet, serverNotes,
                   docNet>>
    /\ ChatUnmounts
    /\ FlashcardsUnmounted
    /\ NotesUnmounted
    /\ noteReqs' =
          IF activeTab = "notes"
          THEN Orphaned(noteReqs) (+) SetToBag({NotesFetch(store.currentDocument)})
          ELSE Orphaned(noteReqs)

\* ------------------------------------------------------------ ChatPanel

\* onChange of the textarea, which is disabled while isLoadingChat.
SetInput(text) ==
    /\ ChatMounted(store, shown)
    /\ ~store.isLoadingChat
    /\ input' = text
    /\ UNCHANGED <<store, activeTab, shown, streamingContent, suggestions,
                   lastUserMessageIndex, isLoadingSuggestions, chatNet, nonChat>>

\* A faulty early return: the text is not trimmed.
SendRejectedUntrimmed(s, messageContent) ==
    \/ messageContent = <<>>
    \/ s.currentDocument = NoDoc
    \/ s.isLoadingChat

\* sendMessage's early return.
SendRejected(s, messageContent) ==
    \/ Trim(messageContent) = <<>>
    \/ s.currentDocument = NoDoc
    \/ s.isLoadingChat

\* Whether sendMessage takes the regenerate branch; idx is the panel's
\* lastUserMessageIndex as of the last render.
UsesRegenerateBranch(isRegenerate, idx) == isRegenerate /\ idx # <<>>

\* A faulty messagesToSend: the new user message is left out.
MessagesToSendWithoutNew(msgs, messageContent, isRegenerate, idx) ==
    IF UsesRegenerateBranch(isRegenerate, idx)
    THEN Slice0(msgs, idx[1] + 1)
    ELSE msgs

\* messagesToSend
MessagesToSend(msgs, messageContent, isRegenerate, idx) ==
    IF UsesRegenerateBranch(isRegenerate, idx)
    THEN Slice0(msgs, idx[1] + 1)
    ELSE Append(msgs, UserMessage(Trim(messageContent)))

\* A faulty sendMessage: regenerate cuts the messages after the last user
\* message out of the store.
SentStoreCutsReplies(s, messageContent, isRegenerate, idx) ==
    setIsLoadingChat(
        IF UsesRegenerateBranch(isRegenerate, idx)
        THEN [s EXCEPT !.messages = Slice0(@, idx[1] + 1)]
        ELSE addMessage(s, UserMessage(Trim(messageContent))),
        TRUE)

\* The store after sendMessage has run up to the call of the gateway.
SentStore(s, messageContent, isRegenerate, idx) ==
    setIsLoadingChat(
        IF UsesRegenerateBranch(isRegenerate, idx)
        THEN s
        ELSE addMessage(s, UserMessage(Trim(messageContent))),
        TRUE)

\* The stream chatWithDocumentStream opens.
NewStream(s, messageContent, isRegenerate, idx) ==
    [ doc    |-> s.currentDocument,
      hist   |-> MessagesToSend(s.messages, messageContent, isRegenerate, idx),
      acc    |-> <<>>,
      frags  |-> <<>>,
      live   |-> TRUE,
      regen  |-> isRegenerate ]

\* Room for the user message and the reply the turn can append, and for two
\* messages for each stream already in flight.
HasRoom(s) ==
    /\ BagCardinality(streams) < MaxStreams
    /\ Len(s.messages) + 2 * BagCardinality(streams) + 2 <= MaxMsgs

\* sendMessage(messageContent, isRegenerate); preset is the value
\* handleRegenerate gave setLastUserMessageIndex before the call (<<>> if none).
SendMessage(messageContent, isRegenerate, preset) ==
    IF SendRejected(store, messageContent)
    THEN /\ lastUserMessageIndex' =
                IF preset # <<>> THEN preset ELSE lastUserMessageIndex
         /\ UNCHANGED <<store, input, streamingContent, suggestions, streams>>
    ELSE /\ HasRoom(store)
         /\ store' = SentStore(store, messageContent, isRegenerate,
                               lastUserMessageIndex)
         /\ lastUserMessageIndex' =
                IF UsesRegenerateBranch(isRegenerate, lastUserMessageIndex)
                THEN preset
                ELSE <<Len(store.messages)>>
         /\ input' = <<>>
         /\ streamingContent' = <<>>
         /\ suggestions' = <<>>
         /\ streams' = streams (+) SetToBag({
                NewStream(store, messageContent, isRegenerate,
                          lastUserMessageIndex)})

\* handleSubmit
HandleSubmit ==
    /\ ChatMounted(store, shown)
    /\ SendMessage(input, FALSE, <<>>)
    /\ submits' = 1 - submits
    /\ Acted
    /\ UNCHANGED <<activeTab, shown, isLoadingSuggestions, settled, sugReqs,
                   nonChatButNoted>>

RECURSIVE LastUserIdx(_)
\* handleRegenerate's loop: the 0-based index of the last user message, or -1.
LastUserIdx(msgs) ==
    IF msgs = <<>> THEN -1
    ELSE IF msgs[Len(msgs)].role = "user" THEN Len(msgs) - 1
    ELSE LastUserIdx(SubSeq(msgs, 1, Len(msgs) - 1))

\* The regenerate button is rendered on the last message when it is an
\* assistant message, and is disabled while isLoadingChat.
RegenerateButtonEnabled(s) ==
    /\ s.messages # <<>>
    /\ s.messages[Len(s.messages)].role = "assistant"
    /\ ~s.isLoadingChat

\* handleRegenerate
HandleRegenerate ==
    /\ ChatMounted(store, shown)
    /\ RegenerateButtonEnabled(store)
    /\ LET lastUserIdx == LastUserIdx(store.messages) IN
       IF lastUserIdx = -1
       THEN UNCHANGED <<store, chatLocals, streams>>
       ELSE SendMessage(store.messages[lastUserIdx + 1].content, TRUE,
                        <<lastUserIdx>>)
    /\ Acted
    /\ UNCHANGED <<activeTab, shown, isLoadingSuggestions, settled, submits, sugReqs,
                   nonChatButNoted>>

\* ------------------------------------------------------------ chat stream

\* A faulty onChunk: the fragment is put in front of the accumulated text.
AccumulateInFront(acc, chunk) == chunk \o acc

\* accumulatedContent += chunk
Accumulate(acc, chunk) == acc \o chunk

\* onChunk of stream st, for a stream of at most max characters
OnChunkUpTo(st, chunk, max) ==
    /\ BagIn(st, streams)
    /\ Len(st.acc) < max
    /\ streams' = (streams (-) SetToBag({st}))
                     (+) SetToBag({[st EXCEPT !.acc = Accumulate(@, chunk),
                                              !.frags = Append(@, chunk)]})
    /\ streamingContent' =
          IF st.live THEN Accumulate(st.acc, chunk) ELSE streamingContent
    /\ UNCHANGED <<store, activeTab, shown, input, suggestions, lastUserMessageIndex,
                   isLoadingSuggestions, settled, submits, sugReqs, nonChat>>

\* onChunk of stream st
OnChunk(st, chunk) == OnChunkUpTo(st, chunk, MaxAcc)

\* A faulty onComplete: whatever was accumulated is committed.
CompletedStoreCommitsAlways(s, acc) ==
    addMessage(setIsLoadingChat(s, FALSE), AssistantMessage(acc))

\* The store after onComplete of a stream that accumulated acc.
CompletedStore(s, acc) ==
    IF Trim(acc) # <<>>
    THEN addMessage(setIsLoadingChat(s, FALSE), AssistantMessage(acc))
    ELSE setIsLoadingChat(s, FALSE)

\* onComplete of stream st
OnComplete(st) ==
    /\ BagIn(st, streams)
    /\ store' = CompletedStore(store, st.acc)
    /\ streamingContent' = IF st.live THEN <<>> ELSE streamingContent
    /\ streams' = streams (-) SetToBag({st})
    /\ settled' = [how |-> "end", acc |-> st.acc]
    /\ UNCHANGED <<activeTab, shown, input, suggestions, lastUserMessageIndex,
                   submits, nonChat>>
    /\ IF store'.messages # store.messages
       THEN SuggestionsEffect(TRUE)
       ELSE UNCHANGED <<isLoadingSuggestions, sugReqs>>

\* A faulty onError: the request is made again.
OnErrorRetries(st) ==
    /\ BagIn(st, streams)
    /\ store' = store
    /\ streamingContent' = IF st.live THEN <<>> ELSE streamingContent
    /\ streams' = (streams (-) SetToBag({st}))
                      (+) SetToBag({[st EXCEPT !.acc = <<>>, !.frags = <<>>]})
    /\ settled' = [how |-> "error", acc |-> st.acc]
    /\ UNCHANGED <<activeTab, shown, input, suggestions, lastUserMessageIndex,
                   isLoadingSuggestions, submits, sugReqs, nonChat>>

\* A faulty onError: the loading flag is left set.
FailedStoreKeepsLoading(s, acc) == s

\* A faulty onError: the partial reply is committed.
FailedStoreCommitsPartial(s, acc) ==
    addMessage(setIsLoadingChat(s, FALSE), AssistantMessage(acc))

\* The store after onError of a stream that accumulated acc.
FailedStore(s, acc) == setIsLoadingChat(s, FALSE)

\* onError of stream st
OnError(st) ==
    /\ BagIn(st, streams)
    /\ store' = FailedStore(store, st.acc)
    /\ streamingContent' = IF st.live THEN <<>> ELSE streamingContent
    /\ streams' = streams (-) SetToBag({st})
    /\ settled' = [how |-> "error", acc |-> st.acc]
    /\ UNCHANGED <<activeTab, shown, input, suggestions, lastUserMessageIndex,
                   isLoadingSuggestions, submits, sugReqs, nonChat>>

\* ------------------------------------------------------------ suggestions

\* What the backend answers to getChatSuggestions(doc, hist): follow-ups to
\* that history of that document.
SuggestionsOf(doc, hist) == <<[doc |-> doc, hist |-> hist]>>

\* getChatSuggestions resolves: the rest of fetchSuggestions' try block, then
\* finally.
SuggestionsOk(req) ==
    /\ BagIn(req, sugReqs)
    /\ sugReqs' = sugReqs (-) SetToBag({req})
    /\ IF req.live
       THEN /\ suggestions' = SuggestionsOf(req.doc, req.hist)
            /\ isLoadingSuggestions' = FALSE
       ELSE UNCHANGED <<suggestions, isLoadingSuggestions>>
    /\ UNCHANGED <<store, activeTab, shown, input, streamingContent,
                   lastUserMessageIndex, streams, settled, submits, nonChat>>

\* getChatSuggestions fails: logged, then finally.
SuggestionsFail(req) ==
    /\ BagIn(req, sugReqs)
    /\ sugReqs' = sugReqs (-) SetToBag({req})
    /\ isLoadingSuggestions' = IF req.live THEN FALSE ELSE isLoadingSuggestions
    /\ Noting("failed", "suggestions")
    /\ UNCHANGED <<store, activeTab, shown, input, streamingContent, suggestions,
                   lastUserMessageIndex, streams, settled, submits,
                   nonChatButNoted>>

\* ------------------------------------------------------------ feature panels

setSummary(s, text) == [s EXCEPT !.summary = text]

setIsLoadingSummary(s, b) == [s EXCEPT !.isLoadingSummary = b]

setKeywords(s, list) == [s EXCEPT !.keywords = list]

setIsLoadingKeywords(s, b) == [s EXCEPT !.isLoadingKeywords = b]

setFlashcards(s, cards) == [s EXCEPT !.flashcards = cards]

setIsLoadingFlashcards(s, b) == [s EXCEPT !.isLoadingFlashcards = b]

\* What the backend answers to getSummary(doc, length): a text about doc.
SummaryOf(doc) == <<doc>>

\* What the backend answers to getKeywords(doc, n): keywords of doc.
KeywordsOf(doc) == <<doc>>

\* What the backend answers to generateFlashcards(doc, n): cards of doc.
FlashcardsOf(doc) ==
    <<[id |-> <<doc, 1>>, doc |-> doc], [id |-> <<doc, 2>>, doc |-> doc]>>

\* The stored value of a panel.
PanelValue(kind, s) ==
    CASE kind = "summary" -> s.summary
      [] kind = "keywords" -> s.keywords
      [] kind = "flashcards" -> s.flashcards

\* The stored value as the record of a request keeps it.
Recorded(kind, s) == IF noted = Off THEN <<>> ELSE PanelValue(kind, s)

\* A panel request for the active document; before: the stored value at the
\* time of the call, in the runs that record it.
PanelRequest(kind, s) ==
    [kind |-> kind, doc |-> s.currentDocument, before |-> Recorded(kind, s)]

\* The store after the try block of a panel handler succeeded and its finally
\* block ran.
PanelDone(s, req) ==
    CASE req.kind = "summary" ->
            setIsLoadingSummary(setSummary(s, SummaryOf(req.doc)), FALSE)
      [] req.kind = "keywords" ->
            setIsLoadingKeywords(setKeywords(s, KeywordsOf(req.doc)), FALSE)
      [] req.kind = "flashcards" ->
            setIsLoadingFlashcards(setFlashcards(s, FlashcardsOf(req.doc)), FALSE)

\* A faulty catch block: the stored value is dropped.
PanelFailedDropsValue(s, req) ==
    CASE req.kind = "summary" -> setIsLoadingSummary(setSummary(s, <<>>), FALSE)
      [] req.kind = "keywords" -> setIsLoadingKeywords(setKeywords(s, <<>>), FALSE)
      [] req.kind = "flashcards" ->
            setIsLoadingFlashcards(setFlashcards(s, <<>>), FALSE)

\* The store after the catch and finally blocks of a panel handler.
PanelFailed(s, req) ==
    CASE req.kind = "summary" -> setIsLoadingSummary(s, FALSE)
      [] req.kind = "keywords" -> setIsLoadingKeywords(s, FALSE)
      [] req.kind = "flashcards" -> setIsLoadingFlashcards(s, FALSE)

\* What SummaryPanel renders below its header.
SummaryEmpty(s) == s.summary = <<>> /\ ~s.isLoadingSummary

SummaryLoading(s) == s.isLoadingSummary

SummaryPopulated(s) == s.summary # <<>> /\ ~s.isLoadingSummary

\* What KeywordsPanel renders below its header.
KeywordsEmpty(s) == Len(s.keywords) = 0 /\ ~s.isLoadingKeywords

KeywordsLoading(s) == s.isLoadingKeywords

KeywordsPopulated(s) == Len(s.keywords) > 0 /\ ~s.isLoadingKeywords

\* What FlashcardsPanel renders below its header; currentCard is
\* flashcards[currentIndex], undefined beyond the end of the list.
FlashcardsEmpty(s) == Len(s.flashcards) = 0 /\ ~s.isLoadingFlashcards

FlashcardsLoading(s) == s.isLoadingFlashcards

FlashcardsPopulated(s, index) ==
    /\ Len(s.flashcards) > 0
    /\ ~s.isLoadingFlashcards
    /\ index < Len(s.flashcards)

\* handleGenerateSummary up to the await; its buttons are rendered only while
\* !isLoadingSummary.
HandleGenerateSummary ==
    /\ Mounted(store, shown, "summary")
    /\ ~store.isLoadingSummary
    /\ BagCardinality(panelReqs) < MaxPanelReqs
    /\ store' = setIsLoadingSummary(store, TRUE)
    /\ panelReqs' = panelReqs (+) SetToBag({PanelRequest("summary", store)})
    /\ UNCHANGED <<activeTab, shown, fadingNotes, noted, chatLocals, chatNet, flashLocals,
                   noteLocals, noteNet, docNet>>

\* handleExtractKeywords up to the await
HandleExtractKeywords ==
    /\ Mounted(store, shown, "keywords")
    /\ ~store.isLoadingKeywords
    /\ BagCardinality(panelReqs) < MaxPanelReqs
    /\ store' = setIsLoadingKeywords(store, TRUE)
    /\ panelReqs' = panelReqs (+) SetToBag({PanelRequest("keywords", store)})
    /\ UNCHANGED <<activeTab, shown, fadingNotes, noted, chatLocals, chatNet, flashLocals,
                   noteLocals, noteNet, docNet>>

\* Where the cursor is and which side is up, for the record of the run.
Showing ==
    IF currentIndex = 0 /\ currentIndex = Len(store.flashcards) - 1
    THEN IF isFlipped THEN "the answer of the only card" ELSE "the only card"
    ELSE IF currentIndex = 0
    THEN IF isFlipped THEN "the answer of the first card" ELSE "the first card"
    ELSE IF currentIndex = Len(store.flashcards) - 1
    THEN IF isFlipped THEN "the answer of the last card" ELSE "the last card"
    ELSE IF isFlipped THEN "the answer of an inner card" ELSE "an inner card"

\* handleGenerateFlashcards up to the await; its buttons are in the prompt and
\* beside the card.
HandleGenerateFlashcards ==
    /\ Mounted(store, shown, "flashcards")
    /\ FlashcardsEmpty(store) \/ FlashcardsPopulated(store, currentIndex)
    /\ BagCardinality(panelReqs) < MaxPanelReqs
    /\ store' = setIsLoadingFlashcards(store, TRUE)
    /\ currentIndex' = 0
    /\ isFlipped' = FALSE
    /\ panelReqs' = panelReqs (+) SetToBag({PanelRequest("flashcards", store)})
    /\ Noting("generate", IF FlashcardsEmpty(store) THEN "no card" ELSE Showing)
    /\ UNCHANGED <<activeTab, shown, fadingNotes, chatLocals, chatNet, deleteReqs,
                   noteLocals, noteNet, docNet>>

\* The request resolves: the rest of the handler's try block, then finally.
PanelRequestOk(req) ==
    /\ BagIn(req, panelReqs)
    /\ store' = PanelDone(store, req)
    /\ panelReqs' = panelReqs (-) SetToBag({req})
    /\ UNCHANGED <<activeTab, shown, fadingNotes, chatLocals, chatNet, flashLocals, noted,
                   noteLocals, noteNet, docNet>>

\* The request fails: the handler's catch block, then finally.
PanelRequestFail(req) ==
    /\ BagIn(req, panelReqs)
    /\ store' = PanelFailed(store, req)
    /\ panelReqs' = panelReqs (-) SetToBag({req})
    /\ Noting("failed", req.kind)
    /\ UNCHANGED <<activeTab, shown, fadingNotes, chatLocals, chatNet, flashLocals, noteLocals,
                   noteNet, docNet>>

\* ------------------------------------------------------------ FlashcardsPanel

removeFlashcard(s, id) ==
    [s EXCEPT !.flashcards = SelectSeq(@, LAMBDA card : card.id # id)]

Max(a, b) == IF a > b THEN a ELSE b

\* The card is shown: its buttons can be clicked.
CardShown ==
    /\ Mounted(store, shown, "flashcards")
    /\ FlashcardsPopulated(store, currentIndex)

\* A faulty handlePrevious: it stops at the first card.
HandlePreviousStops ==
    /\ CardShown
    /\ isFlipped' = FALSE
    /\ currentIndex' = Max(0, currentIndex - 1)
    /\ Noting("previous", Showing)
    /\ UNCHANGED <<store, activeTab, shown, fadingNotes, chatLocals, chatNet, deleteReqs,
                   noteLocals, panelReqs, noteNet, docNet>>

\* handlePrevious
HandlePrevious ==
    /\ CardShown
    /\ isFlipped' = FALSE
    /\ currentIndex' =
          IF currentIndex > 0 THEN currentIndex - 1 ELSE Len(store.flashcards) - 1
    /\ Noting("previous", Showing)
    /\ UNCHANGED <<store, activeTab, shown, fadingNotes, chatLocals, chatNet, deleteReqs,
                   noteLocals, panelReqs, noteNet, docNet>>

\* handleNext
HandleNext ==
    /\ CardShown
    /\ isFlipped' = FALSE
    /\ currentIndex' =
          IF currentIndex < Len(store.flashcards) - 1 THEN currentIndex + 1 ELSE 0
    /\ Noting("next", Showing)
    /\ UNCHANGED <<store, activeTab, shown, fadingNotes, chatLocals, chatNet, deleteReqs,
                   noteLocals, panelReqs, noteNet, docNet>>

\* onClick of a progress dot
SelectCard(index) ==
    /\ CardShown
    /\ index \in 0 .. Len(store.flashcards) - 1
    /\ currentIndex' = index
    /\ isFlipped' = FALSE
    /\ Noting("dot", Showing)
    /\ UNCHANGED <<store, activeTab, shown, fadingNotes, chatLocals, chatNet, deleteReqs,
                   noteLocals, panelReqs, noteNet, docNet>>

\* onClick of the card
FlipCard ==
    /\ CardShown
    /\ isFlipped' = ~isFlipped
    /\ UNCHANGED <<store, activeTab, shown, fadingNotes, chatLocals, chatNet, currentIndex,
                   deleteReqs, noteLocals, panelNet, noteNet, docNet>>

\* handleDelete(currentCard.id) up to the await: the rest of the handler
\* reads currentIndex and flashcards as they were in the render of the click.
HandleDelete ==
    /\ CardShown
    /\ BagCardinality(deleteReqs) < MaxDeleteReqs
    /\ deleteReqs' = deleteReqs (+) SetToBag({
          [id |-> store.flashcards[currentIndex + 1].id,
           currentIndex |-> currentIndex,
           length |-> Len(store.flashcards),
           live |-> TRUE]})
    /\ UNCHANGED <<store, activeTab, shown, fadingNotes, chatLocals, chatNet, currentIndex,
                   isFlipped, noteLocals, panelNet, noteNet, docNet>>

\* The index handleDelete leaves in the panel instance that asked.
IndexAfterDelete(req, index) ==
    IF req.live /\ req.currentIndex >= req.length - 1
    THEN Max(0, req.length - 2)
    ELSE index

\* deleteFlashcard resolves: removeFlashcard, then the index is moved if the
\* card of the click was the last one.
DeleteFlashcardOk(req) ==
    /\ BagIn(req, deleteReqs)
    /\ store' = removeFlashcard(store, req.id)
    /\ currentIndex' = IndexAfterDelete(req, currentIndex)
    /\ deleteReqs' = deleteReqs (-) SetToBag({req})
    /\ UNCHANGED <<activeTab, shown, fadingNotes, chatLocals, chatNet, isFlipped, noteLocals,
                   panelNet, noteNet, docNet>>

\* deleteFlashcard fails: a toast only.
DeleteFlashcardFail(req) ==
    /\ BagIn(req, deleteReqs)
    /\ deleteReqs' = deleteReqs (-) SetToBag({req})
    /\ UNCHANGED <<store, activeTab, shown, fadingNotes, chatLocals, chatNet, currentIndex,
                   isFlipped, noteLocals, panelNet, noteNet, docNet>>

\* ------------------------------------------------------------ NotesPanel

setNotes(s, list) == [s EXCEPT !.notes = list]

addNote(s, note) == [s EXCEPT !.notes = Append(@, note)]

\* fetchNotes resolves with the server's notes at the time of the request or
\* at the time of the response.
NotesFetchOk(req) ==
    /\ BagIn(req, noteReqs)
    /\ req.kind = "fetch"
    /\ \E result \in {req.snapshot, NotesOf(req.doc)} :
          store' = setNotes(store, result)
    /\ noteReqs' = noteReqs (-) SetToBag({req})
    /\ UNCHANGED <<activeTab, shown, chatLocals, chatNet, flashLocals, noteLocals,
                   panelNet, serverNotes, docNet>>
    /\ NoteCards

\* fetchNotes fails: logged only.
NotesFetchFail(req) ==
    /\ BagIn(req, noteReqs)
    /\ req.kind = "fetch"
    /\ noteReqs' = noteReqs (-) SetToBag({req})
    /\ UNCHANGED <<store, activeTab, shown, fadingNotes, chatLocals, chatNet, flashLocals,
                   noteLocals, panelNet, serverNotes, docNet>>

\* The note form as NotesPanel renders it: the newContent and the
\* currentDocument its handleCreateNote closes over.
NoteForm(content, current) == [newContent |-> content, currentDocument |-> current]

\* The note forms on screen: the open one, or the one whose exit runs
\* (<AnimatePresence>, part_000 436-480), which is the element of its last
\* render.
NoteForms ==
    IF isCreating
    THEN {NoteForm(newContent, store.currentDocument)}
    ELSE {closingForm[i] : i \in DOMAIN closingForm}

\* The note form after a step that sets isCreating to false.
FormCloses ==
    closingForm' =
        IF isCreating
        THEN <<NoteForm(newContent, store.currentDocument)>>
        ELSE closingForm

\* The exit of the note form has ended: the form is gone.
FormExitComplete ==
    /\ Mounted(store, shown, "notes")
    /\ closingForm # <<>>
    /\ closingForm' = <<>>
    /\ UNCHANGED <<store, activeTab, shown, fadingNotes, chatLocals, chatNet,
                   flashLocals, isCreating, newContent, editLocals, panelNet,
                   noteNet, docNet>>

\* The button that opens the note form; a form whose exit runs is present
\* again.
StartCreating ==
    /\ Mounted(store, shown, "notes")
    /\ isCreating' = TRUE
    /\ closingForm' = <<>>
    /\ UNCHANGED <<store, activeTab, shown, fadingNotes, chatLocals, chatNet, flashLocals,
                   newContent, editLocals, panelNet, noteNet, docNet>>

\* The Cancel button of the note form.
CancelCreating ==
    /\ Mounted(store, shown, "notes")
    /\ NoteForms # {}
    /\ isCreating' = FALSE
    /\ newContent' = <<>>
    /\ FormCloses
    /\ UNCHANGED <<store, activeTab, shown, fadingNotes, chatLocals, chatNet, flashLocals,
                   editLocals, panelNet, noteNet, docNet>>

\* onChange of the note form's textarea
SetNewContent(text) ==
    /\ Mounted(store, shown, "notes")
    /\ NoteForms # {}
    /\ newContent' = text
    /\ UNCHANGED <<store, activeTab, shown, fadingNotes, chatLocals, chatNet, flashLocals,
                   isCreating, closingForm, editLocals, panelNet, noteNet, docNet>>

\* handleCreateNote up to the await, with the currentDocument and the
\* newContent of the render the form is of; its button is disabled while
\* !newContent.trim().
HandleCreateNote ==
    /\ Mounted(store, shown, "notes")
    /\ \E form \in NoteForms :
          IF form.currentDocument = NoDoc \/ Trim(form.newContent) = <<>>
          THEN UNCHANGED noteReqs
          ELSE /\ BagCardinality(noteReqs) < MaxNoteReqs
               /\ noteReqs' = noteReqs (+) SetToBag({
                     [kind |-> "create", doc |-> form.currentDocument,
                      snapshot |-> <<>>, live |-> TRUE, note |-> NoNote,
                      content |-> form.newContent]})
    /\ UNCHANGED <<store, activeTab, shown, fadingNotes, chatLocals, chatNet, flashLocals,
                   noteLocals, panelNet, serverNotes, docNet>>

\* createNote resolves: the backend has stored the note under the request's
\* document; addNote, and the form of the panel instance that asked is closed.
CreateNoteOk(req) ==
    /\ BagIn(req, noteReqs)
    /\ req.kind = "create"
    /\ Cardinality(serverNotes) < MaxNotes
    /\ LET note == [id |-> Cardinality(serverNotes) + 1, doc |-> req.doc,
                    content |-> req.content] IN
          /\ serverNotes' = serverNotes \cup {note}
          /\ store' = addNote(store, note)
    /\ noteReqs' = noteReqs (-) SetToBag({req})
    /\ IF req.live
       THEN /\ isCreating' = FALSE
            /\ newContent' = <<>>
            /\ FormCloses
            /\ UNCHANGED editLocals
       ELSE UNCHANGED noteLocals
    /\ UNCHANGED <<activeTab, shown, chatLocals, chatNet, flashLocals, panelNet, docNet>>
    /\ NoteCards

\* createNote fails: a toast only.
CreateNoteFail(req) ==
    /\ BagIn(req, noteReqs)
    /\ req.kind = "create"
    /\ noteReqs' = noteReqs (-) SetToBag({req})
    /\ UNCHANGED <<store, activeTab, shown, fadingNotes, chatLocals, chatNet, flashLocals,
                   noteLocals, panelNet, serverNotes, docNet>>

updateNoteContent(s, id, content) ==
    [s EXCEPT !.notes =
        [i \in DOMAIN @ |-> IF @[i].id = id
                            THEN [@[i] EXCEPT !.content = content]
                            ELSE @[i]]]

removeNote(s, id) ==
    [s EXCEPT !.notes = SelectSeq(@, LAMBDA note : note.id # id)]

\* The notes on screen, and the one in edit mode if there is one.
NotesShown == NotesIn(store)

NoteEdited == {note \in NotesShown : note.id = isEditing}

\* The cards on screen that show a note with its pencil and bin: those of
\* the notes that are not in edit mode, and those whose exit runs and which
\* were rendered last that way.
CardsShowing ==
    (NotesShown \ NoteEdited)
        \cup {card.note : card \in {c \in fadingNotes : ~c.editing}}

\* The edit forms on screen, each with the note and the editContent its
\* handleUpdateNote closes over: that of the note in edit mode, and those of
\* the cards whose exit runs and which were rendered last in edit mode.
EditForms ==
    {[note |-> note, editContent |-> editContent] : note \in NoteEdited}
        \cup {[note |-> card.note, editContent |-> card.editContent] :
                 card \in {c \in fadingNotes : c.editing}}

\* The exit of a note card has ended: the card is gone.
CardExitComplete(card) ==
    /\ Mounted(store, shown, "notes")
    /\ card \in fadingNotes
    /\ fadingNotes' = fadingNotes \ {card}
    /\ UNCHANGED <<store, activeTab, shown, chatLocals, chatNet, flashLocals,
                   noteLocals, panelNet, noteNet, docNet>>

\* startEditing(note): the pencil of a card.
StartEditing(note) ==
    /\ Mounted(store, shown, "notes")
    /\ note \in CardsShowing
    /\ isEditing' = note.id
    /\ editContent' = note.content
    /\ UNCHANGED <<store, activeTab, shown, fadingNotes, chatLocals, chatNet, flashLocals,
                   isCreating, newContent, closingForm, panelNet, noteNet, docNet>>

\* The X button of an edit form.
CancelEditing ==
    /\ Mounted(store, shown, "notes")
    /\ EditForms # {}
    /\ isEditing' = NoNote
    /\ UNCHANGED <<store, activeTab, shown, fadingNotes, chatLocals, chatNet, flashLocals,
                   isCreating, newContent, closingForm, editContent, panelNet,
                   noteNet, docNet>>

\* onChange of the textarea of an edit form
SetEditContent(text) ==
    /\ Mounted(store, shown, "notes")
    /\ EditForms # {}
    /\ editContent' = text
    /\ UNCHANGED <<store, activeTab, shown, fadingNotes, chatLocals, chatNet, flashLocals,
                   isCreating, newContent, closingForm, isEditing, panelNet,
                   noteNet, docNet>>

\* handleUpdateNote(note.id) up to the await: the check button of an edit
\* form, with the editContent of the render the form is of.
HandleUpdateNote ==
    /\ Mounted(store, shown, "notes")
    /\ \E form \in EditForms :
          IF Trim(form.editContent) = <<>>
          THEN UNCHANGED noteReqs
          ELSE /\ BagCardinality(noteReqs) < MaxNoteReqs
               /\ noteReqs' = noteReqs (+) SetToBag({
                     [kind |-> "update", doc |-> form.note.doc,
                      snapshot |-> <<>>, live |-> TRUE,
                      note |-> form.note.id, content |-> form.editContent]})
    /\ UNCHANGED <<store, activeTab, shown, fadingNotes, chatLocals, chatNet, flashLocals,
                   noteLocals, panelNet, serverNotes, docNet>>

\* updateNote resolves: the backend has stored the text; updateNoteContent,
\* and the panel instance that asked leaves edit mode.
UpdateNoteOk(req) ==
    /\ BagIn(req, noteReqs)
    /\ req.kind = "update"
    /\ \E n \in serverNotes : n.id = req.note
    /\ serverNotes' = {IF n.id = req.note THEN [n EXCEPT !.content = req.content]
                       ELSE n : n \in serverNotes}
    /\ store' = updateNoteContent(store, req.note, req.content)
    /\ noteReqs' = noteReqs (-) SetToBag({req})
    /\ IF req.live
       THEN /\ isEditing' = NoNote
            /\ UNCHANGED <<isCreating, newContent, closingForm, editContent>>
       ELSE UNCHANGED noteLocals
    /\ UNCHANGED <<activeTab, shown, chatLocals, chatNet, flashLocals, panelNet, docNet>>
    /\ NoteCards

\* updateNote fails: a toast only.
UpdateNoteFail(req) ==
    /\ BagIn(req, noteReqs)
    /\ req.kind = "update"
    /\ noteReqs' = noteReqs (-) SetToBag({req})
    /\ Noting("failed", "updateNote")
    /\ UNCHANGED <<store, activeTab, shown, fadingNotes, chatLocals, chatNet, flashLocals,
                   noteLocals, panelReqs, serverNotes, docNet>>

\* handleDeleteNote(note.id) up to the await: the bin of a card.
HandleDeleteNote(note) ==
    /\ Mounted(store, shown, "notes")
    /\ note \in CardsShowing
    /\ BagCardinality(noteReqs) < MaxNoteReqs
    /\ noteReqs' = noteReqs (+) SetToBag({
          [kind |-> "delete", doc |-> note.doc, snapshot |-> <<>>,
           live |-> TRUE, note |-> note.id, content |-> <<>>]})
    /\ UNCHANGED <<store, activeTab, shown, fadingNotes, chatLocals, chatNet, flashLocals,
                   noteLocals, panelNet, serverNotes, docNet>>

\* deleteNote resolves: the backend has dropped the note; removeNote.
DeleteNoteOk(req) ==
    /\ BagIn(req, noteReqs)
    /\ req.kind = "delete"
    /\ \E n \in serverNotes : n.id = req.note
    /\ serverNotes' = {n \in serverNotes : n.id # req.note}
    /\ store' = removeNote(store, req.note)
    /\ noteReqs' = noteReqs (-) SetToBag({req})
    /\ UNCHANGED <<activeTab, shown, chatLocals, chatNet, flashLocals, noteLocals,
                   panelNet, docNet>>
    /\ NoteCards

\* A faulty handleDeleteNote: the note is removed from the store although the
\* backend refused.
DeleteNoteFailRemoves(req) ==
    /\ BagIn(req, noteReqs)
    /\ req.kind = "delete"
    /\ noteReqs' = noteReqs (-) SetToBag({req})
    /\ store' = removeNote(store, req.note)
    /\ Noting("failed", "deleteNote")
    /\ UNCHANGED <<activeTab, shown, chatLocals, chatNet, flashLocals,
                   noteLocals, panelReqs, serverNotes, docNet>>
    /\ NoteCards

\* deleteNote fails: a toast only.
DeleteNoteFail(req) ==
    /\ BagIn(req, noteReqs)
    /\ req.kind = "delete"
    /\ noteReqs' = noteReqs (-) SetToBag({req})
    /\ Noting("failed", "deleteNote")
    /\ UNCHANGED <<store, activeTab, shown, fadingNotes, chatLocals, chatNet, flashLocals,
                   noteLocals, panelReqs, serverNotes, docNet>>

\* ------------------------------------------------------------ FileUpload

setIsUploading(s, b) == [s EXCEPT !.isUploading = b]

ToLowerCase(name) ==
    [i \in DOMAIN name |->
        CASE name[i] = "P" -> "p"
          [] name[i] = "D" -> "d"
          [] name[i] = "F" -> "f"
          [] name[i] = "A" -> "a"
          [] OTHER -> name[i]]

EndsWith(name, suffix) ==
    /\ Len(name) >= Len(suffix)
    /\ SubSeq(name, Len(name) - Len(suffix) + 1, Len(name)) = suffix

\* A faulty validation: the size is not looked at.
UploadRejectedByNameOnly(file) ==
    ~EndsWith(ToLowerCase(file.name), <<".", "p", "d", "f">>)

\* The two validations of onDrop.
UploadRejected(file) ==
    \/ ~EndsWith(ToLowerCase(file.name), <<".", "p", "d", "f">>)
    \/ file.size > MaxFileSize

\* What an upload is not to lose: the documents, the active document and its
\* per-feature state.
Kept(s) ==
    <<s.documents, s.currentDocument, s.messages, s.summary, s.keywords,
      s.flashcards, s.notes>>

\* In the recording runs, what the store held when the file was accepted.
KeptBefore(file) ==
    IF noted = Off \/ UploadRejected(file) THEN drops.before ELSE Kept(store)

\* The store after the synchronous part of an accepted onDrop.
UploadStartedStore(s) == resetDocumentState(setIsUploading(s, TRUE))

\* onDrop up to the await; the dropzone is disabled while isUploading.
OnDrop(file) ==
    /\ ~store.isUploading
    /\ IF UploadRejected(file)
       THEN UNCHANGED <<store, uploads>>
       ELSE /\ uploads + uploaded < MaxUploads
            /\ store' = UploadStartedStore(store)
            /\ uploads' = uploads + 1
    /\ drops' = [n |-> 1 - drops.n, file |-> file, before |-> KeptBefore(file)]
    /\ UNCHANGED <<activeTab, shown, chatLocals, chatNet, flashLocals, noteLocals,
                   panelNet, noteNet, uploaded, serverDocs, docsFetch,
                   docDeletes, fadingRows>>
    /\ NoteCards

\* The store after the try block of onDrop succeeded and its finally block ran.
UploadedStore(s, doc) ==
    setIsUploading(setCurrentDocument(addDocument(s, doc), doc), FALSE)

\* uploadDocument resolves with the new document.
UploadOk ==
    /\ uploads > 0
    /\ LET doc == UploadIds[uploaded + 1] IN
          /\ store' = UploadedStore(store, doc)
          /\ serverDocs' = serverDocs \cup {doc}
    /\ uploads' = uploads - 1
    /\ uploaded' = uploaded + 1
    /\ Render
    /\ DocumentRows
    /\ UNCHANGED <<settled, submits, panelNet, serverNotes, docsFetch, drops,
                   docDeletes>>

\* uploadDocument fails: a toast, then the finally block.
UploadFail ==
    /\ uploads > 0
    /\ store' = setIsUploading(store, FALSE)
    /\ uploads' = uploads - 1
    /\ UNCHANGED <<activeTab, shown, chatLocals, chatNet, nonChatPanels, uploaded,
                   serverDocs, docsFetch, drops, docDeletes, fadingRows>>

\* ------------------------------------------------------------ specification

\* The tabs the chat specification switches between.
ChatTabs == {"chat", "summary"}

\* The text typed and the fragment delivered in the chat specification.
ChatInputs == {<<" ", "q">>}

ChatChunks == {<<"x">>}

Next ==
    \/ FetchDocumentsOk
    \/ FetchDocumentsFail
    \/ \E doc \in InitServerDocs : HandleSelectDocument(doc)
    \/ \E tab \in ChatTabs : OnTabChange(tab)
    \/ ExitComplete
    \/ \E text \in ChatInputs : SetInput(text)
    \/ HandleSubmit
    \/ HandleRegenerate
    \/ \E st \in BagToSet(streams), chunk \in ChatChunks : OnChunk(st, chunk)
    \/ \E st \in BagToSet(streams) : OnComplete(st)
    \/ \E st \in BagToSet(streams) : OnError(st)
    \/ \E req \in BagToSet(sugReqs) : SuggestionsOk(req)
    \/ \E req \in BagToSet(sugReqs) : SuggestionsFail(req)

Spec == Init /\ [][Next]_vars

\* Every stream terminates: the gateway calls onComplete or onError.
StreamTerminates == \E st \in BagToSet(streams) : OnComplete(st) \/ OnError(st)

\* The streams open at a time in the runs in which every stream terminates
\* and in the runs of the sidebar with the chat.
MaxFairStreams == 1

\* The step A, taken only if at most MaxFairStreams streams are open after it.
OneStream(A) == A /\ BagCardinality(streams') <= MaxFairStreams

NextFair ==
    \/ FetchDocumentsOk
    \/ FetchDocumentsFail
    \/ \E doc \in InitServerDocs : HandleSelectDocument(doc)
    \/ \E tab \in ChatTabs : OnTabChange(tab)
    \/ ExitComplete
    \/ \E text \in ChatInputs : SetInput(text)
    \/ OneStream(HandleSubmit)
    \/ OneStream(HandleRegenerate)
    \/ \E st \in BagToSet(streams), chunk \in ChatChunks : OnChunk(st, chunk)
    \/ \E st \in BagToSet(streams) : OnComplete(st)
    \/ \E st \in BagToSet(streams) : OnError(st)
    \/ \E req \in BagToSet(sugReqs) : SuggestionsOk(req)
    \/ \E req \in BagToSet(sugReqs) : SuggestionsFail(req)

\* The chat runs in which no stream stays open for ever.
SpecFair == Init /\ [][NextFair]_vars /\ WF_vars(StreamTerminates)

\* The longest stream of the runs with one document.
MaxFrags == MaxAcc + 1

\* One document, every input and every chunk: the chat runs in which the
\* user can submit whitespace and a stream can deliver whitespace.
NextChunks ==
    \/ FetchDocumentsOk
    \/ FetchDocumentsFail
    \/ HandleSelectDocument("d1")
    \/ \E tab \in ChatTabs : OnTabChange(tab)
    \/ ExitComplete
    \/ \E text \in Inputs : SetInput(text)
    \/ HandleSubmit
    \/ HandleRegenerate
    \/ \E st \in BagToSet(streams), chunk \in Chunks :
          OnChunkUpTo(st, chunk, MaxFrags)
    \/ \E st \in BagToSet(streams) : OnComplete(st)
    \/ \E st \in BagToSet(streams) : OnError(st)
    \/ \E req \in BagToSet(sugReqs) : SuggestionsOk(req)
    \/ \E req \in BagToSet(sugReqs) : SuggestionsFail(req)

SpecChunks == Init /\ [][NextChunks]_vars

\* The tabs the panel runs use.
PanelTabs == {"summary", "keywords", "flashcards"}

\* Document switches, uploads and the summary, keywords and flashcards panels.
NextPanels ==
    \/ FetchDocumentsOk
    \/ FetchDocumentsFail
    \/ \E doc \in InitServerDocs : HandleSelectDocument(doc)
    \/ \E tab \in PanelTabs : OnTabChange(tab)
    \/ ExitComplete
    \/ HandleGenerateSummary
    \/ HandleExtractKeywords
    \/ HandleGenerateFlashcards
    \/ \E req \in BagToSet(panelReqs) : PanelRequestOk(req)
    \/ \E req \in BagToSet(panelReqs) : PanelRequestFail(req)
    \/ OnDrop(PdfFile)
    \/ UploadOk
    \/ UploadFail
    \/ \E row \in fadingRows : RowExitComplete(row)

SpecPanels == Init /\ [][NextPanels]_vars

\* Document switches, the summary panel and uploads of every file.
NextUpload ==
    \/ FetchDocumentsOk
    \/ FetchDocumentsFail
    \/ \E doc \in InitServerDocs : HandleSelectDocument(doc)
    \/ OnTabChange("summary")
    \/ ExitComplete
    \/ HandleGenerateSummary
    \/ \E req \in BagToSet(panelReqs) : PanelRequestOk(req)
    \/ \E req \in BagToSet(panelReqs) : PanelRequestFail(req)
    \/ \E file \in Files : OnDrop(file)
    \/ UploadOk
    \/ UploadFail
    \/ \E row \in fadingRows : RowExitComplete(row)

SpecUpload == Init /\ [][NextUpload]_vars

\* The tabs the notes runs use.
NoteTabs == {"chat", "notes"}

NoteTexts == {<<" ">>, <<"n">>}

\* Document switches and the notes panel.
NextNotes ==
    \/ FetchDocumentsOk
    \/ FetchDocumentsFail
    \/ \E doc \in InitServerDocs : HandleSelectDocument(doc)
    \/ \E tab \in NoteTabs : OnTabChange(tab)
    \/ ExitComplete
    \/ \E req \in BagToSet(noteReqs) : NotesFetchOk(req)
    \/ \E req \in BagToSet(noteReqs) : NotesFetchFail(req)
    \/ StartCreating
    \/ CancelCreating
    \/ FormExitComplete
    \/ \E text \in NoteTexts : SetNewContent(text)
    \/ HandleCreateNote
    \/ \E req \in BagToSet(noteReqs) : CreateNoteOk(req)
    \/ \E req \in BagToSet(noteReqs) : CreateNoteFail(req)
    \/ \E card \in fadingNotes : CardExitComplete(card)

SpecNotes == Init /\ [][NextNotes]_vars

\* The text typed into the note form in the runs with every panel.
RequestTexts == {<<"n">>}

\* The requests in flight.
InFlight ==
    BagCardinality(streams) + BagCardinality(sugReqs)
        + BagCardinality(panelReqs) + BagCardinality(noteReqs)
        + BagCardinality(deleteReqs)

\* The step A, taken only if at most MaxInFlight requests are in flight
\* after it and the history holds at most MaxLimitedMsgs messages.
Limited(A) ==
    /\ A
    /\ InFlight' <= MaxInFlight
    /\ Len(store'.messages) <= MaxLimitedMsgs

\* Every panel that issues requests, two documents and every tab, in
\* the runs with at most MaxInFlight requests in flight.  The
\* streams deliver and complete; the other requests are answered with a
\* failure, which leaves the store's content as it is.
NextRequests ==
    \/ Limited(FetchDocumentsOk)
    \/ \E doc \in InitServerDocs : Limited(HandleSelectDocument(doc))
    \/ \E tab \in Tabs : Limited(OnTabChange(tab))
    \/ Limited(ExitComplete)
    \/ \E text \in ChatInputs : Limited(SetInput(text))
    \/ Limited(HandleSubmit)
    \/ \E st \in BagToSet(streams), chunk \in ChatChunks : Limited(OnChunk(st, chunk))
    \/ \E st \in BagToSet(streams) : Limited(OnComplete(st))
    \/ \E req \in BagToSet(sugReqs) : Limited(SuggestionsFail(req))
    \/ Limited(HandleGenerateSummary)
    \/ Limited(HandleExtractKeywords)
    \/ Limited(HandleGenerateFlashcards)
    \/ \E req \in BagToSet(panelReqs) : Limited(PanelRequestFail(req))
    \/ \E req \in BagToSet(noteReqs) : Limited(NotesFetchFail(req))
    \/ Limited(StartCreating)
    \/ Limited(CancelCreating)
    \/ Limited(FormExitComplete)
    \/ \E text \in RequestTexts : Limited(SetNewContent(text))
    \/ Limited(HandleCreateNote)
    \/ \E req \in BagToSet(noteReqs) : Limited(CreateNoteFail(req))

SpecRequests == Init /\ [][NextRequests]_vars

\* Document switches and the summary, keywords and flashcards panels with
\* the card buttons.
NextCards ==
    \/ FetchDocumentsOk
    \/ \E doc \in InitServerDocs : HandleSelectDocument(doc)
    \/ \E tab \in PanelTabs : OnTabChange(tab)
    \/ ExitComplete
    \/ HandleGenerateSummary
    \/ HandleExtractKeywords
    \/ HandleGenerateFlashcards
    \/ \E req \in BagToSet(panelReqs) : PanelRequestOk(req)
    \/ \E req \in BagToSet(panelReqs) : PanelRequestFail(req)
    \/ HandlePrevious
    \/ HandleNext
    \/ \E index \in 0 .. 1 : SelectCard(index)
    \/ FlipCard
    \/ HandleDelete
    \/ \E req \in BagToSet(deleteReqs) : DeleteFlashcardOk(req)
    \/ \E req \in BagToSet(deleteReqs) : DeleteFlashcardFail(req)

SpecCards == Init /\ [][NextCards]_vars

\* Document switches and the summary, keywords and flashcards panels, in
\* runs that record the panel requests.
NextRecording ==
    \/ FetchDocumentsOk
    \/ \E doc \in InitServerDocs : HandleSelectDocument(doc)
    \/ \E tab \in PanelTabs : OnTabChange(tab)
    \/ ExitComplete
    \/ HandleGenerateSummary
    \/ HandleExtractKeywords
    \/ HandleGenerateFlashcards
    \/ \E req \in BagToSet(panelReqs) : PanelRequestOk(req)
    \/ \E req \in BagToSet(panelReqs) : PanelRequestFail(req)

SpecRecording == InitRecording /\ [][NextRecording]_vars

\* A call of one operation of the store, from any caller: the store becomes
\* after, and the run notes what was called.
StoreCall(after, what, of) ==
    /\ store' = after
    /\ Noting(what, of)
    /\ UNCHANGED <<activeTab, shown, chatLocals, chatNet, flashLocals, noteLocals,
                   panelReqs, noteNet, docNet>>
    /\ NoteCards

\* Every per-feature field of the store holds something.
PerFeatureFull(s) ==
    /\ s.messages # <<>>
    /\ s.summary # <<>>
    /\ s.keywords # <<>>
    /\ s.flashcards # <<>>
    /\ s.notes # <<>>

\* The messages the calls of the store append.
StoreTexts == {<<"q">>}

\* The notes the calls of the store set.
StoreNotes ==
    {<<[id |-> 1, doc |-> doc, content |-> <<"n">>]>> : doc \in InitServerDocs}

\* The operations of the store in any order, with values of either document.
NextStore ==
    \/ \E doc \in InitServerDocs \cup {NoDoc} :
          StoreCall(setCurrentDocument(store, doc), "setCurrentDocument", "any")
    \/ StoreCall(resetDocumentState(store), "resetDocumentState",
                 IF PerFeatureFull(store) THEN "full" ELSE "any")
    \/ \E text \in StoreTexts, role \in {"user", "assistant"} :
          /\ Len(store.messages) < MaxMsgs
          /\ StoreCall(addMessage(store, [role |-> role, content |-> text]),
                       "addMessage", "any")
    \/ \E doc \in InitServerDocs :
          StoreCall(setSummary(store, SummaryOf(doc)), "setSummary", "any")
    \/ \E doc \in InitServerDocs :
          StoreCall(setKeywords(store, KeywordsOf(doc)), "setKeywords", "any")
    \/ \E doc \in InitServerDocs :
          StoreCall(setFlashcards(store, FlashcardsOf(doc)), "setFlashcards", "any")
    \/ \E list \in StoreNotes :
          StoreCall(setNotes(store, list), "setNotes", "any")

SpecStore == InitRecording /\ [][NextStore]_vars

\* The sidebar with deletions, and the chat of the active document with at
\* most MaxFairStreams streams open.
NextDocs ==
    \/ FetchDocumentsOk
    \/ FetchDocumentsFail
    \/ \E doc \in InitServerDocs : HandleSelectDocument(doc)
    \/ \E doc \in InitServerDocs : HandleDeleteDocument(doc)
    \/ \E doc \in InitServerDocs : DeleteDocumentOk(doc)
    \/ \E doc \in InitServerDocs : DeleteDocumentFail(doc)
    \/ \E row \in fadingRows : RowExitComplete(row)
    \/ \E text \in ChatInputs : SetInput(text)
    \/ OneStream(HandleSubmit)
    \/ \E st \in BagToSet(streams), chunk \in ChatChunks : OnChunk(st, chunk)
    \/ \E st \in BagToSet(streams) : OnComplete(st)
    \/ \E req \in BagToSet(sugReqs) : SuggestionsFail(req)

SpecDocs == Init /\ [][NextDocs]_vars

\* The step A, taken only if at most MaxFailingInFlight requests, uploads and
\* document deletions are in flight after it and the history holds at most
\* MaxLimitedMsgs messages.
Few(A) ==
    /\ A
    /\ InFlight' + uploads' + BagCardinality(docDeletes') <= MaxFailingInFlight
    /\ Len(store'.messages) <= MaxLimitedMsgs

\* One document, every tab, the sidebar and the upload box of the page
\* without a document, with every kind of gateway call and its failure, in
\* the recording runs.  A call is also answered where what comes after needs
\* the answer: a chat turn, generated flashcards, a saved note.
NextFailing ==
    \/ FetchDocumentsOk
    \/ FetchDocumentsFail
    \/ Few(HandleSelectDocument("d1"))
    \/ \E tab \in Tabs : OnTabChange(tab)
    \/ Few(ExitComplete)
    \/ \E text \in ChatInputs : SetInput(text)
    \/ Few(HandleSubmit)
    \/ Few(HandleRegenerate)
    \/ \E st \in BagToSet(streams), chunk \in ChatChunks : OnChunk(st, chunk)
    \/ \E st \in BagToSet(streams) : Few(OnComplete(st))
    \/ \E st \in BagToSet(streams) : OnError(st)
    \/ \E req \in BagToSet(sugReqs) : SuggestionsOk(req)
    \/ \E req \in BagToSet(sugReqs) : SuggestionsFail(req)
    \/ Few(HandleGenerateSummary)
    \/ Few(HandleExtractKeywords)
    \/ Few(HandleGenerateFlashcards)
    \/ \E req \in BagToSet(panelReqs) :
          req.kind = "flashcards" /\ PanelRequestOk(req)
    \/ \E req \in BagToSet(panelReqs) : PanelRequestFail(req)
    \/ Few(HandleDelete)
    \/ \E req \in BagToSet(deleteReqs) : DeleteFlashcardFail(req)
    \/ \E req \in BagToSet(noteReqs) : NotesFetchOk(req)
    \/ \E req \in BagToSet(noteReqs) : NotesFetchFail(req)
    \/ StartCreating
    \/ FormExitComplete
    \/ \E text \in RequestTexts : SetNewContent(text)
    \/ Few(HandleCreateNote)
    \/ \E req \in BagToSet(noteReqs) : CreateNoteOk(req)
    \/ \E req \in BagToSet(noteReqs) : CreateNoteFail(req)
    \/ \E note \in CardsShowing : StartEditing(note)
    \/ Few(HandleUpdateNote)
    \/ \E req \in BagToSet(noteReqs) : UpdateNoteFail(req)
    \/ \E note \in CardsShowing : Few(HandleDeleteNote(note))
    \/ \E req \in BagToSet(noteReqs) : DeleteNoteFail(req)
    \/ store.currentDocument = NoDoc /\ Few(OnDrop(PdfFile))
    \/ UploadFail
    \/ Few(HandleDeleteDocument("d1"))
    \/ DeleteDocumentFail("d1")

SpecFailing == InitRecording /\ [][NextFailing]_vars

\* Every document there can be: the server's and the uploaded ones.
EveryDocument == InitServerDocs \cup {UploadIds[i] : i \in 1..MaxUploads}

\* The sidebar and the upload box: the list fetch, selections, deletions and
\* uploads of a PDF.
NextSidebar ==
    \/ FetchDocumentsOk
    \/ FetchDocumentsFail
    \/ \E doc \in EveryDocument : HandleSelectDocument(doc)
    \/ \E doc \in EveryDocument : HandleDeleteDocument(doc)
    \/ \E doc \in EveryDocument : DeleteDocumentOk(doc)
    \/ \E doc \in EveryDocument : DeleteDocumentFail(doc)
    \/ OnTabChange("summary")
    \/ ExitComplete
    \/ OnDrop(PdfFile)
    \/ UploadOk
    \/ UploadFail
    \/ \E row \in fadingRows : RowExitComplete(row)

SpecSidebar == Init /\ [][NextSidebar]_vars

\* The step is taken while no upload is outstanding.
Quiet(A) == A /\ uploads = 0

\* Uploads of a PDF into a session with summaries and keywords, in the
\* recording runs where the user waits for the upload to settle.
NextAttempt ==
    \/ Quiet(FetchDocumentsOk)
    \/ Quiet(FetchDocumentsFail)
    \/ \E doc \in InitServerDocs : Quiet(HandleSelectDocument(doc))
    \/ \E tab \in {"summary", "keywords"} : Quiet(OnTabChange(tab))
    \/ Quiet(ExitComplete)
    \/ Quiet(HandleGenerateSummary)
    \/ Quiet(HandleExtractKeywords)
    \/ \E req \in BagToSet(panelReqs) : Quiet(PanelRequestOk(req))
    \/ \E req \in BagToSet(panelReqs) : Quiet(PanelRequestFail(req))
    \/ OnDrop(PdfFile)
    \/ UploadOk
    \/ UploadFail
    \/ \E row \in fadingRows : Quiet(RowExitComplete(row))

SpecAttempt == InitRecording /\ [][NextAttempt]_vars

\* The text typed into the edit form of a note.
EditTexts == {<<" ">>, <<"m">>}

\* The tabs of the panels that delete.
CacheTabs == {"notes", "flashcards"}

\* The step A, taken only if at most one request is outstanding after it.
OneAtATime(A) ==
    A /\ InFlight' + BagCardinality(docDeletes') <= 1

\* The operations that change what the backend stores, with either outcome:
\* documents are deleted, notes created, edited and deleted, flashcards
\* generated and deleted, one request at a time, in the recording runs.
\* The document worked on is d1; either document is deleted.
NextCache ==
    \/ FetchDocumentsOk
    \/ FetchDocumentsFail
    \/ OneAtATime(HandleSelectDocument("d1"))
    \/ \E tab \in CacheTabs : OneAtATime(OnTabChange(tab))
    \/ OneAtATime(ExitComplete)
    \/ \E req \in BagToSet(noteReqs) : NotesFetchOk(req)
    \/ \E req \in BagToSet(noteReqs) : NotesFetchFail(req)
    \/ StartCreating
    \/ CancelCreating
    \/ FormExitComplete
    \/ SetNewContent(<<"n">>)
    \/ OneAtATime(HandleCreateNote)
    \/ \E req \in BagToSet(noteReqs) : CreateNoteOk(req)
    \/ \E req \in BagToSet(noteReqs) : CreateNoteFail(req)
    \/ \E note \in CardsShowing : StartEditing(note)
    \/ CancelEditing
    \/ \E text \in EditTexts : SetEditContent(text)
    \/ OneAtATime(HandleUpdateNote)
    \/ \E req \in BagToSet(noteReqs) : UpdateNoteOk(req)
    \/ \E req \in BagToSet(noteReqs) : UpdateNoteFail(req)
    \/ \E note \in CardsShowing : OneAtATime(HandleDeleteNote(note))
    \/ \E req \in BagToSet(noteReqs) : DeleteNoteOk(req)
    \/ \E req \in BagToSet(noteReqs) : DeleteNoteFail(req)
    \/ \E card \in fadingNotes : CardExitComplete(card)
    \/ OneAtATime(HandleGenerateFlashcards)
    \/ \E req \in BagToSet(panelReqs) : PanelRequestOk(req)
    \/ \E req \in BagToSet(panelReqs) : PanelRequestFail(req)
    \/ OneAtATime(HandleDelete)
    \/ \E req \in BagToSet(deleteReqs) : DeleteFlashcardOk(req)
    \/ \E req \in BagToSet(deleteReqs) : DeleteFlashcardFail(req)
    \/ \E doc \in InitServerDocs : OneAtATime(HandleDeleteDocument(doc))
    \/ \E doc \in InitServerDocs : DeleteDocumentOk(doc)
    \/ \E doc \in InitServerDocs : DeleteDocumentFail(doc)
    \/ \E row \in fadingRows : RowExitComplete(row)

SpecCache == InitRecording /\ [][NextCache]_vars

\* The flashcards of one document: generation, navigation, flipping and
\* deletion, in the recording runs.
NextDeck ==
    \/ FetchDocumentsOk
    \/ FetchDocumentsFail
    \/ HandleSelectDocument("d1")
    \/ OnTabChange("flashcards")
    \/ ExitComplete
    \/ HandleGenerateFlashcards
    \/ \E req \in BagToSet(panelReqs) : PanelRequestOk(req)
    \/ \E req \in BagToSet(panelReqs) : PanelRequestFail(req)
    \/ HandlePrevious
    \/ HandleNext
    \/ \E index \in 0 .. 1 : SelectCard(index)
    \/ FlipCard
    \/ HandleDelete
    \/ \E req \in BagToSet(deleteReqs) : DeleteFlashcardOk(req)
    \/ \E req \in BagToSet(deleteReqs) : DeleteFlashcardFail(req)

SpecDeck == InitRecording /\ [][NextDeck]_vars

\* ------------------------------------------------------------ steps

\* The step opens stream st (sendMessage reached the gateway call).
Opened(st) == streams' = streams (+) SetToBag({st})

\* The step settles stream st (onComplete or onError ran).
Closed(st) == BagIn(st, streams) /\ streams' = streams (-) SetToBag({st})

\* messages.slice(0, lastUserIdx + 1): the prefix that ends at the most recent
\* user message.
PrefixToLastUser(msgs) == Slice0(msgs, LastUserIdx(msgs) + 1)

UserCount(msgs) == Cardinality({i \in DOMAIN msgs : msgs[i].role = "user"})

\* The number of messages after the most recent user message.
TrailingReplies(msgs) == Len(msgs) - (LastUserIdx(msgs) + 1)

\* ------------------------------------------------------------ claims

\* C1: when a stream opened for a document settles while another document is
\* active, the message sequence (which now belongs to the other document) is
\* left as it is.
C1_StaleStreamAppendsNothing ==
    [][\A st \in BagToSet(streams) :
          (Closed(st) /\ st.doc # store.currentDocument)
              => store'.messages = store.messages]_vars

\* C2: at most one chat stream is in flight, and isLoadingChat is true while
\* one is.
C2_OneStreamAndLoading ==
    /\ BagCardinality(streams) <= 1
    /\ (streams # EmptyBag => store.isLoadingChat)

\* The request req is settled in this step.
PanelClosed(req) ==
    BagIn(req, panelReqs) /\ panelReqs' = panelReqs (-) SetToBag({req})

\* No per-feature state in the store s.
PerFeatureEmpty(s) ==
    /\ s.messages = <<>>
    /\ s.summary = <<>>
    /\ s.keywords = <<>>
    /\ s.flashcards = <<>>
    /\ s.notes = <<>>

\* C3: at every step in which the active document becomes a different
\* document (sidebar selection, or setCurrentDocument at the end of a
\* successful upload), messages, summary, keywords, flashcards and notes are
\* all empty in the resulting state.
C3_SwitchLeavesNothing ==
    [][store'.currentDocument # store.currentDocument => PerFeatureEmpty(store')]_vars

\* C4: a summary, keywords or flashcards response that was requested while a
\* document other than the now active one was active is discarded when it
\* resolves: the store's summary, keywords and flashcards stay as they are.
C4_StaleResponseDiscarded ==
    [][\A req \in BagToSet(panelReqs) :
          (PanelClosed(req) /\ req.doc # store.currentDocument)
             => /\ store'.summary = store.summary
                /\ store'.keywords = store.keywords
                /\ store'.flashcards = store.flashcards]_vars

\* C5: in every reachable state each note of the store's notes list belongs
\* to the active document.
C5_NotesBelongToActive ==
    \A i \in DOMAIN store.notes : store.notes[i].doc = store.currentDocument

\* C6: the history a regeneration sends is the prefix of the current message
\* sequence that ends at the most recent user message.
C6_RegenerateSendsPrefix ==
    [][\A st \in BagToSet(streams') :
          (Opened(st) /\ st.regen)
              => st.hist = PrefixToLastUser(store.messages)]_vars

\* C7: a successful regeneration leaves the history it sent followed by the
\* one new assistant message, so exactly one reply follows the last user message.
C7_RegenerateReplaces ==
    [][\A st \in BagToSet(streams) :
          (Closed(st) /\ st.regen /\ settled'.how = "end" /\ Trim(st.acc) # <<>>)
              => /\ store'.messages = Append(st.hist, AssistantMessage(st.acc))
                 /\ TrailingReplies(store'.messages) = 1]_vars

\* C8: a regeneration appends no user message.
C8_RegenerateAddsNoUserMessage ==
    [][\A st \in BagToSet(streams') :
          (Opened(st) /\ st.regen)
              => UserCount(store'.messages) = UserCount(store.messages)]_vars

\* C9: the error callback of a turn appends nothing to the message sequence,
\* drops the turn's accumulator with the stream, and clears the streaming
\* content of the panel that started the turn.
C9_ErrorCommitsNothing ==
    [][\A st \in BagToSet(streams) :
          (Closed(st) /\ settled'.how = "error")
              => /\ store'.messages = store.messages
                 /\ (st.live => streamingContent' = <<>>)]_vars

\* C9 witness: a turn has failed after a fragment had arrived, and the
\* sequence holds the user message only.
C9_Witness ==
    /\ settled = [how |-> "error", acc |-> <<"x">>]
    /\ store.messages = <<UserMessage(<<"q">>)>>
    /\ streams = EmptyBag
    /\ streamingContent = <<>>

\* C10: after the error callback of a submitted turn the message sequence is
\* the one from just before the submit (the sent history without the user
\* message the submit appended).
C10_FailedTurnRestoresSequence ==
    [][\A st \in BagToSet(streams) :
          (Closed(st) /\ settled'.how = "error" /\ ~st.regen)
              => store'.messages = SubSeq(st.hist, 1, Len(st.hist) - 1)]_vars

\* C11: a turn that has started settles: the step in which its stream ends,
\* by onComplete or by onError, leaves isLoadingChat false, and when streams
\* terminate a set isLoadingChat is eventually cleared.
C11_TurnSettles ==
    /\ [][\A st \in BagToSet(streams) : Closed(st) => ~store'.isLoadingChat]_vars
    /\ (store.isLoadingChat ~> ~store.isLoadingChat)

\* C11 witness: a turn has ended normally with a reply and the controls are
\* enabled again.
C11_Witness ==
    /\ settled = [how |-> "end", acc |-> <<"x">>]
    /\ Len(store.messages) = 2
    /\ streams = EmptyBag
    /\ ~store.isLoadingChat

\* C12: an accepted submit appends the trimmed text of the input as a user
\* message, and the history it sends is the store's message sequence after
\* that append: the prior messages in order, then the new user message.
C12_SubmitSendsWholeHistory ==
    [][\A st \in BagToSet(streams') :
          (Opened(st) /\ ~st.regen)
              => /\ store'.messages =
                        Append(store.messages, UserMessage(Trim(input)))
                 /\ st.hist = store'.messages]_vars

\* C12 witness: a submit made after a first exchange is in flight with the
\* three messages as its history.
C12_Witness ==
    \E st \in BagToSet(streams) :
        /\ ~st.regen
        /\ st.acc = <<>>
        /\ st.hist = store.messages
        /\ Len(st.hist) = 3
        /\ st.hist[3] = UserMessage(<<"q">>)

\* What a normal end of stream st leaves besides the message sequence: the
\* loading flag is false and the streaming content of the panel that started
\* the turn is empty.
EndLeavesIdle(st) ==
    /\ ~store'.isLoadingChat
    /\ st.live => streamingContent' = <<>>

\* C13 as stated: when a stream ends normally, one assistant message with
\* the accumulated text is appended if the accumulator is non-empty and none
\* if it is empty; the accumulator is cleared and isLoadingChat is false.
C13_EndCommitsNonEmpty ==
    [][\A st \in BagToSet(streams) :
          (Closed(st) /\ settled'.how = "end")
              => /\ store'.messages =
                        IF st.acc # <<>>
                        THEN Append(store.messages, AssistantMessage(st.acc))
                        ELSE store.messages
                 /\ EndLeavesIdle(st)]_vars

\* C13 amended: when a stream ends normally, one assistant message with the
\* accumulated text is appended if the accumulator holds something other
\* than whitespace and none otherwise; the accumulator is cleared and
\* isLoadingChat is false.
C13_EndCommitsNonBlank ==
    [][\A st \in BagToSet(streams) :
          (Closed(st) /\ settled'.how = "end")
              => /\ store'.messages =
                        IF Trim(st.acc) # <<>>
                        THEN Append(store.messages, AssistantMessage(st.acc))
                        ELSE store.messages
                 /\ EndLeavesIdle(st)]_vars

\* C13 witness: a stream that had accumulated whitespace only has ended
\* normally and the sequence holds the user message only.
C13_Witness ==
    /\ settled = [how |-> "end", acc |-> <<" ">>]
    /\ store.messages = <<UserMessage(<<"q">>)>>
    /\ streams = EmptyBag
    /\ ~store.isLoadingChat

RECURSIVE Concatenation(_)
\* The fragments of a list joined in the order of the list.
Concatenation(frags) ==
    IF frags = <<>> THEN <<>>
    ELSE Head(frags) \o Concatenation(Tail(frags))

\* The step delivers one more fragment to stream st, which becomes st2.
Delivered(st, st2) ==
    /\ BagIn(st, streams)
    /\ streams' = (streams (-) SetToBag({st})) (+) SetToBag({st2})
    /\ Len(st2.frags) = Len(st.frags) + 1

\* C14: after the k-th fragment of a stream the streaming content shown by
\* the panel that started it is the concatenation of fragments 1..k, and the
\* assistant message the stream commits holds the concatenation of all its
\* fragments in arrival order.
C14_FragmentsInOrder ==
    [][/\ \A st \in BagToSet(streams), st2 \in BagToSet(streams') :
             (Delivered(st, st2) /\ st2.live)
                 => streamingContent' = Concatenation(st2.frags)
       /\ \A st \in BagToSet(streams) :
             (Closed(st) /\ store'.messages # store.messages)
                 => store'.messages =
                       Append(store.messages,
                              AssistantMessage(Concatenation(st.frags)))]_vars

\* C14 witness: a stream that received a blank and then an x has committed
\* them in that order.
C14_Witness ==
    /\ settled = [how |-> "end", acc |-> <<" ", "x">>]
    /\ store.messages =
          <<UserMessage(<<"q">>), AssistantMessage(<<" ", "x">>)>>

\* The text is empty or holds whitespace only.
Blank(text) == \A i \in DOMAIN text : text[i] = " "

\* C15: a submission whose text is empty or whitespace-only, or that is made
\* with no active document or while isLoadingChat is true, opens no stream
\* and leaves the message sequence and isLoadingChat as they were.
C15_InvalidSubmitDoesNothing ==
    [][(/\ submits' # submits
        /\ \/ Blank(input)
           \/ store.currentDocument = NoDoc
           \/ store.isLoadingChat)
          => /\ streams' = streams
             /\ store'.messages = store.messages
             /\ store'.isLoadingChat = store.isLoadingChat]_vars

\* C15 witness: a whitespace-only text has been submitted and nothing was
\* sent.
C15_Witness ==
    /\ submits = 1
    /\ input = <<" ">>
    /\ store.currentDocument = "d1"
    /\ store.messages = <<>>
    /\ ~store.isLoadingChat
    /\ streams = EmptyBag
    /\ settled.how = "none"

\* The names of Files that end in .pdf, whatever the case.
PdfNames == { <<"a", ".", "p", "d", "f">>, <<"A", ".", "P", "D", "F">> }

\* C16: a drop of a file larger than 10 * 1024 * 1024 bytes, or of a file
\* whose name does not end in .pdf (case-insensitive), issues no upload
\* request and leaves the store as it was.
C16_InvalidUploadRejected ==
    [][(/\ drops' # drops
        /\ \/ drops'.file.size > 10 * 1024 * 1024
           \/ drops'.file.name \notin PdfNames)
          => /\ uploads' = uploads
             /\ store' = store]_vars

\* C16 witness: a PDF of one byte more than the limit has been dropped on a
\* session with an active document and a summary, and no upload was started.
C16_Witness ==
    /\ drops = [n |-> 1,
                file |-> [name |-> <<"A", ".", "P", "D", "F">>,
                          size |-> 10 * 1024 * 1024 + 1],
                before |-> <<>>]
    /\ uploads = 0
    /\ uploaded = 0
    /\ store.currentDocument = "d1"
    /\ store.summary = SummaryOf("d1")
    /\ ~store.isUploading

\* The requests of a bag whose instances may have been unmounted, counted
\* without regard to that.
CopiesEitherWay(r, bag) ==
    CopiesIn(Orphan(r), bag) + CopiesIn([r EXCEPT !.live = TRUE], bag)

\* The requests of bag' that the step has issued.
Issued(bag, after) ==
    {r \in BagToSet(after) : CopiesEitherWay(r, after) > CopiesEitherWay(r, bag)}

\* The panel requests the step has issued.
IssuedPanelRequests ==
    {r \in BagToSet(panelReqs') : CopiesIn(r, panelReqs') > CopiesIn(r, panelReqs)}

\* The documents named by the requests the step has issued: chat streams,
\* suggestion requests, panel requests, note fetches and note creations.
IssuedFor ==
    {st.doc : st \in {x \in BagToSet(streams') : Opened(x)}}
        \cup {r.doc : r \in Issued(sugReqs, sugReqs')}
        \cup {r.doc : r \in IssuedPanelRequests}
        \cup {r.doc : r \in Issued(noteReqs, noteReqs')}

\* C17: every request a feature panel issues (chat stream, suggestions,
\* summary, keywords, flashcards, note fetch, note creation) names the
\* document that is active when it is issued; none is issued for another
\* document and none while no document is active.
C17_RequestsNameActiveDocument ==
    [][\A doc \in IssuedFor :
          doc = store'.currentDocument /\ doc # NoDoc]_vars

\* Exactly one of three conditions holds.
ExactlyOne(a, b, c) ==
    /\ a \/ b \/ c
    /\ ~(a /\ b) /\ ~(a /\ c) /\ ~(b /\ c)

\* C18: with an active document, the summary, keywords and flashcards
\* panels each render exactly one of empty/prompt, loading and populated:
\* never two at once and never none.  The flashcards panel is the one on
\* screen when its tab is the active one.
C18_OneVisualState ==
    store.currentDocument # NoDoc =>
        /\ ExactlyOne(SummaryEmpty(store), SummaryLoading(store),
                      SummaryPopulated(store))
        /\ ExactlyOne(KeywordsEmpty(store), KeywordsLoading(store),
                      KeywordsPopulated(store))
        /\ shown = "flashcards" =>
              ExactlyOne(FlashcardsEmpty(store), FlashcardsLoading(store),
                         FlashcardsPopulated(store, currentIndex))

\* A summary request is issued in the step.
SummaryIssued ==
    panelReqs' = panelReqs (+) SetToBag({PanelRequest("summary", store)})

\* A summary request resolves in the step.
SummaryResolved(req) == req.kind = "summary" /\ PanelClosed(req)

\* C19: a successful summary request started from the empty state takes the
\* summary panel through empty, loading and populated exactly once: the
\* step that issues it goes from empty to loading, loading is left only by
\* the step in which the request resolves (or by a change of the active
\* document, after which the panel is another document's), that step leaves
\* loading, and populated is entered only by that step, from loading and
\* with the text returned for the request.
C19_SummaryOnceThrough ==
    [][/\ (SummaryIssued /\ SummaryEmpty(store)) => SummaryLoading(store')
       /\ (SummaryLoading(store) /\ ~SummaryLoading(store'))
             => \/ \E req \in BagToSet(panelReqs) : SummaryResolved(req)
                \/ store'.currentDocument # store.currentDocument
       /\ \A req \in BagToSet(panelReqs) :
             SummaryResolved(req)
                => SummaryLoading(store) /\ ~SummaryLoading(store')
       /\ (SummaryPopulated(store') /\ ~SummaryPopulated(store))
             => /\ SummaryLoading(store)
                /\ \E req \in BagToSet(panelReqs) :
                      /\ SummaryResolved(req)
                      /\ store'.summary = SummaryOf(req.doc)]_vars

\* C20: the step in which the active document changes or a turn begins
\* leaves the suggestion set empty, and a step that places suggestions into
\* the set places those requested for the active document and the present
\* history.
C20_SuggestionsAreCurrent ==
    [][/\ (\/ store'.currentDocument # store.currentDocument
           \/ \E st \in BagToSet(streams') : Opened(st))
          => suggestions' = <<>>
       /\ (suggestions' # suggestions /\ suggestions' # <<>>)
          => suggestions' =
                SuggestionsOf(store.currentDocument, store.messages)]_vars

\* C21: a failed suggestion request is swallowed: after it the suggestion
\* set is empty, isLoadingSuggestions is false, and the messages and
\* isLoadingChat are as before; a suggestion request is issued only when
\* there are at least two messages and the last one is an assistant message.
C21_FailedSuggestionsSwallowed ==
    [][/\ \A req \in BagToSet(sugReqs) :
             SuggestionsFail(req)
                => /\ suggestions' = <<>>
                   /\ ~isLoadingSuggestions'
                   /\ store'.messages = store.messages
                   /\ store'.isLoadingChat = store.isLoadingChat
       /\ \A req \in Issued(sugReqs, sugReqs') :
             /\ Len(req.hist) >= 2
             /\ req.hist[Len(req.hist)].role = "assistant"
             /\ req.hist = store'.messages]_vars

\* The loading flag of a panel.
PanelLoading(kind, s) ==
    CASE kind = "summary" -> s.isLoadingSummary
      [] kind = "keywords" -> s.isLoadingKeywords
      [] kind = "flashcards" -> s.isLoadingFlashcards

\* C22 as claimed: when a summary, keywords or flashcards request fails, its
\* loading flag is false afterwards and the stored value is the one of the
\* time the request was issued.
C22_FailureRestoresValue ==
    [][\A req \in BagToSet(panelReqs) :
          PanelRequestFail(req)
             => /\ ~PanelLoading(req.kind, store')
                /\ PanelValue(req.kind, store') = req.before]_vars

\* C22, amended: when a summary, keywords or flashcards request fails, its
\* loading flag is false afterwards and the stored value is the one of just
\* before the failure.
C22_FailureKeepsValue ==
    [][\A req \in BagToSet(panelReqs) :
          PanelRequestFail(req)
             => /\ ~PanelLoading(req.kind, store')
                /\ PanelValue(req.kind, store') = PanelValue(req.kind, store)]_vars

\* A summary request has failed and d1 has its summary, not loading.
C22_Witness ==
    /\ noted = Note("failed", "summary")
    /\ store.currentDocument = "d1"
    /\ store.summary = SummaryOf("d1")
    /\ ~store.isLoadingSummary
    /\ panelReqs = EmptyBag

\* C23: for every sequence of store operations, right after
\* resetDocumentState the messages, summary, keywords, flashcards and notes
\* are empty, whatever they held and whether setCurrentDocument was called
\* before or after.
C23_ResetEmpties ==
    /\ noted.what = "resetDocumentState" => PerFeatureEmpty(store)
    /\ \A doc \in InitServerDocs \cup {NoDoc} :
          /\ PerFeatureEmpty(setCurrentDocument(resetDocumentState(store), doc))
          /\ PerFeatureEmpty(resetDocumentState(setCurrentDocument(store, doc)))

\* resetDocumentState has just been called on a store that held messages, a
\* summary, keywords, flashcards and notes while d1 was active.
C23_Witness ==
    /\ noted = Note("resetDocumentState", "full")
    /\ store.currentDocument = "d1"

\* C24: the message sequence is append-only between resets: every step
\* leaves it unchanged, appends exactly one message at its end, or clears
\* it; no step removes, reorders or rewrites a message.
C24_MessagesAppendOnly ==
    [][\/ store'.messages = store.messages
       \/ /\ Len(store'.messages) = Len(store.messages) + 1
          /\ SubSeq(store'.messages, 1, Len(store.messages)) = store.messages
       \/ store'.messages = <<>>]_vars

\* After a regeneration has completed the earlier reply is still in the
\* sequence, followed by the new one.
C24_Witness ==
    /\ Len(store.messages) = 3
    /\ store.messages[1].role = "user"
    /\ store.messages[2].role = "assistant"
    /\ store.messages[3].role = "assistant"
    /\ streams = EmptyBag

\* C25: after the active document has been deleted, the messages, summary,
\* keywords, flashcards and notes are empty, and a stream that is still open
\* for a deleted document appends nothing when it completes.
C25_DeletionLeavesNothing ==
    [][/\ \A doc \in InitServerDocs :
             (DeleteDocumentOk(doc) /\ store.currentDocument = doc)
                => PerFeatureEmpty(store')
       /\ \A st \in BagToSet(streams) :
             (OnComplete(st) /\ st.doc \notin serverDocs)
                => store'.messages = store.messages]_vars

\* The streams the step has opened: a stream that has delivered nothing is
\* in flight once more than before, mounted or not.
OpenedStreams == {st \in Issued(streams, streams') : st.acc = <<>>}

\* The step issues no request of any kind.
NothingIssued ==
    /\ OpenedStreams = {}
    /\ Issued(sugReqs, sugReqs') = {}
    /\ Issued(noteReqs, noteReqs') = {}
    /\ IssuedPanelRequests = {}
    /\ Issued(deleteReqs, deleteReqs') = {}
    /\ uploads' <= uploads
    /\ BagCardinality(docDeletes') <= BagCardinality(docDeletes)
    /\ docsFetch'.state = "pending" => docsFetch.state = "pending"

\* The step is the failure of a gateway call: a chat stream, a suggestion
\* request, a summary, keywords or flashcards request, a flashcard deletion,
\* a note fetch, creation, update or deletion, the document-list fetch, an
\* upload or a document deletion.
FailureStep ==
    \/ \E st \in BagToSet(streams) : OnError(st)
    \/ \E req \in BagToSet(sugReqs) : SuggestionsFail(req)
    \/ \E req \in BagToSet(panelReqs) : PanelRequestFail(req)
    \/ \E req \in BagToSet(deleteReqs) : DeleteFlashcardFail(req)
    \/ \E req \in BagToSet(noteReqs) :
          \/ NotesFetchFail(req)
          \/ CreateNoteFail(req)
          \/ UpdateNoteFail(req)
          \/ DeleteNoteFail(req)
    \/ FetchDocumentsFail
    \/ UploadFail
    \/ \E doc \in InitServerDocs : DeleteDocumentFail(doc)

\* The step mounts the panel on screen: the exit of the one before has
\* ended, or the first document has become active.
MountsPanel ==
    \/ shown' # shown
    \/ store.currentDocument = NoDoc /\ store'.currentDocument # NoDoc

\* The note fetches the step has issued, and its other note requests.
IssuedNoteFetches == {r \in Issued(noteReqs, noteReqs') : r.kind = "fetch"}

IssuedNoteWrites == {r \in Issued(noteReqs, noteReqs') : r.kind # "fetch"}

\* Whatever the step issues is issued by the handler of a user action or by
\* an effect that runs because its panel was mounted or because the active
\* document or, for the suggestions, the history has changed; the document
\* list is not fetched again.
IssuedByActionOrEffect ==
    /\ OpenedStreams # {} => (HandleSubmit \/ HandleRegenerate)
    /\ IssuedPanelRequests # {}
          => \/ HandleGenerateSummary
             \/ HandleExtractKeywords
             \/ HandleGenerateFlashcards
    /\ Issued(deleteReqs, deleteReqs') # {} => HandleDelete
    /\ IssuedNoteWrites # {}
          => \/ HandleCreateNote
             \/ HandleUpdateNote
             \/ \E note \in CardsShowing : HandleDeleteNote(note)
    /\ uploads' > uploads => \E file \in Files : OnDrop(file)
    /\ BagCardinality(docDeletes') > BagCardinality(docDeletes)
          => \E doc \in InitServerDocs : HandleDeleteDocument(doc)
    /\ Issued(sugReqs, sugReqs') # {}
          => \/ MountsPanel
             \/ store'.currentDocument # store.currentDocument
             \/ store'.messages # store.messages
    /\ IssuedNoteFetches # {}
          => \/ MountsPanel
             \/ store'.currentDocument # store.currentDocument
    /\ docsFetch'.state = "pending" => docsFetch.state = "pending"

\* C26 as claimed: after a suggestion request has failed, no suggestion
\* request is issued until the user acts (submit, regenerate, select, tab
\* change).
C26_NoRequestUntilUserActs ==
    [][(noted = Note("failed", "suggestions") /\ noted' = noted)
          => Issued(sugReqs, sugReqs') = {}]_vars

\* C26, amended: no call is retried: the step in which a gateway call of any
\* kind fails issues no request, and a request is issued only by the handler
\* of a user action or by an effect run because its panel was mounted or
\* because the active document or the history has changed.
C26_NoCallRetried ==
    [][(FailureStep => NothingIssued) /\ IssuedByActionOrEffect]_vars

\* The suggestion request for the history on screen has failed and none is
\* in flight; a stream has failed as well and none is open.
C26_Witness ==
    /\ noted = Note("failed", "suggestions")
    /\ ChatMounted(store, shown)
    /\ WantsSuggestions(store)
    /\ sugReqs = EmptyBag
    /\ settled.how = "error"
    /\ streams = EmptyBag

\* C27: the active document is none or one of the documents in the list.
C27_ActiveDocumentListed ==
    store.currentDocument = NoDoc \/ store.currentDocument \in store.documents

\* C28: whenever there are flashcards, the cursor is on one of them.
C28_IndexInRange ==
    Len(store.flashcards) > 0 => currentIndex < Len(store.flashcards)

\* C29: while a summary, keywords or flashcards request issued for the active
\* document is outstanding its loading flag is true, and the settling of a
\* request issued under another document does not set the flag false.
C29_FlagCoversRequest ==
    [][/\ \A req \in BagToSet(panelReqs') :
             req.doc = store'.currentDocument => PanelLoading(req.kind, store')
       /\ \A req \in BagToSet(panelReqs) :
             ( /\ PanelRequestOk(req) \/ PanelRequestFail(req)
               /\ req.doc # store.currentDocument
               /\ PanelLoading(req.kind, store) )
                => PanelLoading(req.kind, store')]_vars

\* C30: isUploading is true for as long as an upload is outstanding, so the
\* dropzone is disabled and no second upload starts; once the upload has
\* settled isUploading is false.
C30_UploadingWhileOutstanding ==
    [][/\ uploads' > 0 => store'.isUploading
       /\ uploads' <= 1
       /\ (UploadOk \/ UploadFail) => ~store'.isUploading]_vars

\* C31: an upload that passed validation and failed at the gateway leaves the
\* documents, the active document and its messages, summary, keywords,
\* flashcards and notes as they were before the file was dropped.
C31_FailedUploadKeepsState ==
    [][UploadFail => Kept(store') = drops.before]_vars

\* The client's mirror of what the backend stores.
Cache(s) == <<s.documents, s.notes, s.flashcards>>

\* The click that starts a deletion, a creation or an update.
CacheRequested ==
    \/ \E doc \in InitServerDocs : HandleDeleteDocument(doc)
    \/ HandleCreateNote
    \/ HandleUpdateNote
    \/ \E note \in CardsShowing : HandleDeleteNote(note)
    \/ HandleDelete

\* The backend refuses one of these calls.
CacheRefused ==
    \/ \E doc \in InitServerDocs : DeleteDocumentFail(doc)
    \/ \E req \in BagToSet(noteReqs) :
          CreateNoteFail(req) \/ UpdateNoteFail(req) \/ DeleteNoteFail(req)
    \/ \E req \in BagToSet(deleteReqs) : DeleteFlashcardFail(req)

\* C32: deleting a document, creating, updating or deleting a note and
\* deleting a flashcard leave the store's documents, notes and flashcards as
\* they are when the call is issued and when it fails; only a success changes
\* them.
C32_CacheFollowsServer ==
    [][(CacheRequested \/ CacheRefused) => Cache(store') = Cache(store)]_vars

\* The update of a note has just been refused: the note on screen has the
\* text the backend holds and the edit form still has the text typed.
C32_Witness ==
    /\ noted = Note("failed", "updateNote")
    /\ noteReqs = EmptyBag
    /\ isEditing = 1
    /\ editContent = <<"m">>
    /\ store.notes = <<[id |-> 1, doc |-> "d1", content |-> <<"n">>]>>
    /\ serverNotes = {[id |-> 1, doc |-> "d1", content |-> <<"n">>]}

\* No two consecutive messages have the same role, and the last is the user's.
Alternating(hist) ==
    /\ hist # <<>>
    /\ hist[Len(hist)].role = "user"
    /\ \A i \in 1..(Len(hist) - 1) : hist[i].role # hist[i + 1].role

\* C33: every history sent to the chat backend alternates roles and ends
\* with a user message.
C33_HistoriesAlternate ==
    \A st \in BagToSet(streams) : Alternating(st.hist)

\* C34: next from the last card goes to index 0 and previous from index 0 to
\* the last card, otherwise the index moves by one; next, previous, a dot and
\* generation leave the question side up, and a dot and generation put the
\* cursor on the card chosen and on the first card.
C34_NavigationCyclic ==
    [][LET last == Len(store.flashcards) - 1 IN
       /\ HandleNext
             => /\ currentIndex' = IF currentIndex = last THEN 0 ELSE currentIndex + 1
                /\ ~isFlipped'
       /\ HandlePrevious
             => /\ currentIndex' = IF currentIndex = 0 THEN last ELSE currentIndex - 1
                /\ ~isFlipped'
       /\ \A index \in 0 .. last :
             SelectCard(index) => currentIndex' = index /\ ~isFlipped'
       /\ HandleGenerateFlashcards => currentIndex' = 0 /\ ~isFlipped']_vars

\* Previous was clicked with the answer of the first of two cards up: the
\* cursor is on the last card and the question side is up.
C34_Witness ==
    /\ noted = Note("previous", "the answer of the first card")
    /\ Len(store.flashcards) = 2
    /\ currentIndex = 1
    /\ ~isFlipped

====
